---- MODULE Spec2Model ----
(***************************************************************************)
(* Model of pcminh0505/persona: the weighted persona classifier            *)
(* (persona/persona_classifier.py), the legacy PersonaAnalyzer metrics     *)
(* (persona_analyzer.py), and the portfolio reconciler                     *)
(* (services/portfolio_service.py, models/portfolio_models.py).            *)
(*                                                                         *)
(* Conventions                                                             *)
(*  - Python None is the empty sequence <<>>; a present value v is <<v>>.  *)
(*  - A datetime is an integer number of ticks: year * TicksPerYear + k,   *)
(*    k = 0 being midnight of January 1st of that year.                    *)
(*  - token_concentration is a ratio; it is kept in hundredths (0.6 = 60). *)
(*  - A percentage total_score / max_possible is kept as the pair          *)
(*    <<total_score, max_possible>> and compared by cross-multiplication,  *)
(*    which is what float division of these small integers decides.        *)
(***************************************************************************)
EXTENDS Integers, Sequences, FiniteSets, TLC

VARIABLES
    \* ---- PersonaClassifier, pure evaluate/score/rank pipeline
    criteria,               \* the criteria dict handed to the classifier
    detailed_metrics,       \* result of _calculate_detailed_metrics
    persona,                \* result of _determine_persona (None before)
    last_persona_scores,    \* self._last_persona_scores (None = attribute absent)
    last_best_score,        \* self._last_best_score     (None = attribute absent)
    \* ---- PersonaAnalyzer.analyze_wallet, wallet-date metrics
    all_transactions,       \* the transaction records the adapter returned
    wallet_data,            \* wallet_data of analyze_wallet (None before)
    results,                \* results[metric.name] of analyze_wallet (None before)
    \* ---- classify_persona_with_details, one coroutine per address
    task_pc,                \* where each address's coroutine is suspended
    task_data,              \* what it has gathered so far
    task_result,            \* the tuple it returned (None before)
    raised_at,              \* the step of it that raised, if any (history)
    formatted,              \* what format_persona_analysis reported for it
    \* ---- PortfolioService.analyze_portfolio
    zerion_adapter,         \* self.zerion_adapter: None, or what its calls answer
    etherscan_adapter,      \* what the calls of self.etherscan_adapter answer
    pricing_service,        \* what the price service answers
    session,                \* self.session: "none" or "open"
    context,                \* the service is used "bare", or "inside" an async with, or "exited"
    pf_pc,                  \* where analyze_portfolio is
    token_holdings,         \* its local token_holdings
    nft_holdings,           \* its local nft_holdings
    eth_balance,            \* its local eth_balance
    eth_value_usd,          \* its local eth_value_usd
    snapshot,               \* the PortfolioSnapshot it returned (None before)
    \* ---- _calculate_detailed_holding_metrics applied to a list and a permutation
    transfers_in,           \* the transfer records handed to the reducer
    token_type,             \* "ERC20", "ERC721" or "ERC1155"
    permuted,               \* the same records in another order (None before)
    metrics,                \* the metrics returned for transfers_in (None before)
    permuted_metrics,       \* the metrics returned for permuted (None before)
    token_balance,          \* what _calculate_token_balance returned for transfers_in
    \* ---- one call of an ActivityService method
    activity_call,          \* the method called ("" when none)
    activity_response,      \* what the Etherscan adapter answers to its request
    activity_result,        \* the dict the method returned (None before)
    \* ---- the properties of one PortfolioSnapshot
    portfolio,              \* the PortfolioSnapshot (None when there is none)
    top_asset,              \* what top_asset_by_value returned (None before)
    concentration,          \* what token_concentration_ratio returned (None before)
    \* ---- one call of a method or read of a property that only computes
    property_read,          \* the method or property that was read ("" before)
    property_value          \* what it returned (None before)

classifierVars == <<criteria, detailed_metrics, persona, last_persona_scores,
                    last_best_score>>
analyzerVars == <<all_transactions, wallet_data, results>>

taskVars == <<task_pc, task_data, task_result, raised_at, formatted>>

portfolioVars == <<zerion_adapter, etherscan_adapter, pricing_service, session, context,
                   pf_pc, token_holdings, nft_holdings, eth_balance,
                   eth_value_usd, snapshot>>

reducerVars == <<transfers_in, token_type, permuted, metrics, permuted_metrics,
                 token_balance>>

activityVars == <<activity_call, activity_response, activity_result>>

snapshotVars == <<portfolio, top_asset, concentration>>

readVars == <<property_read, property_value>>

pureVars == <<reducerVars, activityVars, snapshotVars, readVars>>

vars == <<classifierVars, analyzerVars, taskVars, portfolioVars, pureVars>>

None == <<>>
Some(v) == <<v>>

\* ------------------------------------------------------------ datetimes
TicksPerYear == 2

DateTime(year, k) == year * TicksPerYear + k
YearOf(dt) == dt \div TicksPerYear

\* ------------------------------------------------------------ archetypes
OG == "OG (Conservative)"
DeFiChad == "DeFi Chad (Moderate)"
Degen == "Degen (Aggressive)"
VirginCT == "Virgin CT (Newbie)"
Archetypes == {OG, DeFiChad, Degen, VirginCT}

Metric(pt, name, passes, weight) ==
    [persona_type |-> pt, metric_name |-> name, passes |-> passes, weight |-> weight]

\* wallet_creation.year if wallet_creation else <sentinel>
wallet_year(c, sentinel) ==
    IF c.wallet_creation_date # None THEN YearOf(c.wallet_creation_date[1]) ELSE sentinel

\* "passes": wallet_creation and wallet_year < 2020  (None is falsy)
Truthy(opt) == opt # None

_calculate_og_metrics(c) ==
    << Metric(OG, "Token Concentration", c.token_concentration > 60, "High"),
       Metric(OG, "Holding Period", c.longest_holding_days > 365, "High"),
       Metric(OG, "Top Asset Value", c.top_value < 5000, "Medium"),
       Metric(OG, "Wallet Age",
              Truthy(c.wallet_creation_date) /\ wallet_year(c, 9999) < 2020, "High"),
       Metric(OG, "ETH Holdings", c.has_eth, "Medium") >>

\* variant: the activity threshold read as "at least 120 days"
_calculate_defi_chad_metrics_inclusive(c) ==
    << Metric(DeFiChad, "Holding Period", c.longest_holding_days > 90, "High"),
       Metric(DeFiChad, "Token Concentration", c.token_concentration > 50, "High"),
       Metric(DeFiChad, "Activity Level", c.active_days >= 120, "High"),
       Metric(DeFiChad, "Top Asset Value Range",
              2000 < c.top_value /\ c.top_value < 5000, "Medium") >>

_calculate_defi_chad_metrics(c) ==
    << Metric(DeFiChad, "Holding Period", c.longest_holding_days > 90, "High"),
       Metric(DeFiChad, "Token Concentration", c.token_concentration > 50, "High"),
       Metric(DeFiChad, "Activity Level", c.active_days > 120, "High"),
       Metric(DeFiChad, "Top Asset Value Range",
              2000 < c.top_value /\ c.top_value < 5000, "Medium") >>

_calculate_degen_metrics(c) ==
    << Metric(Degen, "High Activity", c.active_days > 180, "High"),
       Metric(Degen, "Swap Activity", c.swap_count > 100, "High"),
       Metric(Degen, "Short Holding Period", c.longest_holding_days < 90, "High"),
       Metric(Degen, "High Token Concentration", c.token_concentration > 70, "Medium"),
       Metric(Degen, "Non-ETH Top Asset", c.is_top_asset_token_not_eth, "Medium") >>

_calculate_virgin_ct_metrics(c) ==
    << Metric(VirginCT, "Recent Wallet",
              Truthy(c.wallet_creation_date) /\ wallet_year(c, 0) > 2023, "High"),
       Metric(VirginCT, "Moderate Activity", c.active_days > 30, "Medium"),
       Metric(VirginCT, "Small Portfolio", c.total_portfolio_value < 5000, "High"),
       Metric(VirginCT, "Low Transaction Count", c.total_transactions < 50, "Medium") >>

_calculate_detailed_metrics(c) ==
    _calculate_og_metrics(c) \o _calculate_defi_chad_metrics(c)
        \o _calculate_degen_metrics(c) \o _calculate_virgin_ct_metrics(c)

\* weight_values.get(metric["weight"], 1)
weight_values(w) ==
    CASE w = "High" -> 3 [] w = "Medium" -> 2 [] w = "Low" -> 1 [] OTHER -> 1

EmptyScore == [total_score |-> 0, max_possible |-> 0,
               passed_metrics |-> 0, total_metrics |-> 0]

\* The dict persona_scores: tab is the mapping, order its insertion order.
EmptyScores == [tab |-> <<>>, order |-> <<>>]

\* for metric in detailed_metrics: ... (the grouping loop)
RECURSIVE ScoreLoop(_, _, _)
ScoreLoop(ms, i, scores) ==
    IF i > Len(ms) THEN scores
    ELSE LET metric == ms[i]
             pt == metric.persona_type
             s0 == IF pt \in DOMAIN scores.tab THEN scores
                   ELSE [tab |-> scores.tab @@ (pt :> EmptyScore),
                         order |-> Append(scores.order, pt)]
             w == weight_values(metric.weight)
             e1 == [s0.tab[pt] EXCEPT !.max_possible = @ + w, !.total_metrics = @ + 1]
             e2 == IF metric.passes
                   THEN [e1 EXCEPT !.total_score = @ + w, !.passed_metrics = @ + 1]
                   ELSE e1
         IN ScoreLoop(ms, i + 1, [s0 EXCEPT !.tab = [@ EXCEPT ![pt] = e2]])

\* Comparison of two percentages kept as <<numerator, denominator>>, den > 0.
PctGT(a, b) == a[1] * b[2] > b[1] * a[2]
PctEQ(a, b) == a[1] * b[2] = b[1] * a[2]

\* best_score = -1
InitialBestScore == <<-1, 1>>

\* for persona_type, scores in persona_scores.items(): ... (the ranking loop),
\* a variant in which a later archetype of equal percentage replaces the best
RECURSIVE RankLoopLastWins(_, _, _, _)
RankLoopLastWins(scores, i, best_persona, best_score) ==
    IF i > Len(scores.order)
    THEN [best_persona |-> best_persona, best_score |-> best_score]
    ELSE LET pt == scores.order[i]
             s == scores.tab[pt]
             percentage_score == <<s.total_score, s.max_possible>>
         IN IF s.max_possible > 0
               /\ (PctGT(percentage_score, best_score)
                   \/ PctEQ(percentage_score, best_score))
            THEN RankLoopLastWins(scores, i + 1, Some(pt), percentage_score)
            ELSE RankLoopLastWins(scores, i + 1, best_persona, best_score)

\* variant: a minimum-confidence floor, an archetype scoring 0 is never selected
RECURSIVE RankLoopWithFloor(_, _, _, _)
RankLoopWithFloor(scores, i, best_persona, best_score) ==
    IF i > Len(scores.order)
    THEN [best_persona |-> best_persona, best_score |-> best_score]
    ELSE LET pt == scores.order[i]
             s == scores.tab[pt]
             percentage_score == <<s.total_score, s.max_possible>>
         IN IF s.max_possible > 0 /\ s.total_score > 0
               /\ (PctGT(percentage_score, best_score)
                   \/ (PctEQ(percentage_score, best_score)
                       /\ s.total_score > scores.tab[best_persona[1]].total_score))
            THEN RankLoopWithFloor(scores, i + 1, Some(pt), percentage_score)
            ELSE RankLoopWithFloor(scores, i + 1, best_persona, best_score)

\* for persona_type, scores in persona_scores.items(): ... (the ranking loop)
RECURSIVE RankLoop(_, _, _, _)
RankLoop(scores, i, best_persona, best_score) ==
    IF i > Len(scores.order)
    THEN [best_persona |-> best_persona, best_score |-> best_score]
    ELSE LET pt == scores.order[i]
             s == scores.tab[pt]
             percentage_score == <<s.total_score, s.max_possible>>
         IN IF s.max_possible > 0
               /\ (PctGT(percentage_score, best_score)
                   \/ (PctEQ(percentage_score, best_score)
                       /\ s.total_score > scores.tab[best_persona[1]].total_score))
            THEN RankLoop(scores, i + 1, Some(pt), percentage_score)
            ELSE RankLoop(scores, i + 1, best_persona, best_score)

\* _determine_persona: the returned label and the two attributes it stores
_determine_persona(c) ==
    LET persona_scores == ScoreLoop(_calculate_detailed_metrics(c), 1, EmptyScores)
        best == RankLoop(persona_scores, 1, None, InitialBestScore)
    IN [persona |-> IF best.best_persona # None THEN best.best_persona[1]
                    ELSE "Unclassified",
        persona_scores |-> persona_scores,
        best_score |-> best.best_score]

\* variant: the DeFi Chad rule without the range test on the top value
_determine_persona_legacy_without_range(c) ==
    IF /\ c.token_concentration > 60
       /\ c.longest_holding_days > 365
       /\ c.top_value < 5000
       /\ Truthy(c.wallet_creation_date)
       /\ wallet_year(c, 9999) < 2020
       /\ c.has_eth
    THEN OG
    ELSE IF /\ c.longest_holding_days > 90
            /\ c.token_concentration > 50
            /\ c.active_days > 120
    THEN DeFiChad
    ELSE IF /\ c.active_days > 180
            /\ c.swap_count > 100
            /\ c.longest_holding_days < 90
            /\ c.token_concentration > 70
            /\ c.is_top_asset_token_not_eth
    THEN Degen
    ELSE IF /\ Truthy(c.wallet_creation_date)
            /\ wallet_year(c, 0) > 2023
            /\ c.active_days > 30
            /\ c.total_portfolio_value < 5000
            /\ c.total_transactions < 50
    THEN VirginCT
    ELSE "Unclassified"

\* _determine_persona_legacy: the four rules in order, the first whose tests
\* all hold names the archetype
_determine_persona_legacy(c) ==
    IF /\ c.token_concentration > 60
       /\ c.longest_holding_days > 365
       /\ c.top_value < 5000
       /\ Truthy(c.wallet_creation_date)
       /\ wallet_year(c, 9999) < 2020
       /\ c.has_eth
    THEN OG
    ELSE IF /\ c.longest_holding_days > 90
            /\ c.token_concentration > 50
            /\ c.active_days > 120
            /\ 2000 < c.top_value /\ c.top_value < 5000
    THEN DeFiChad
    ELSE IF /\ c.active_days > 180
            /\ c.swap_count > 100
            /\ c.longest_holding_days < 90
            /\ c.token_concentration > 70
            /\ c.is_top_asset_token_not_eth
    THEN Degen
    ELSE IF /\ Truthy(c.wallet_creation_date)
            /\ wallet_year(c, 0) > 2023
            /\ c.active_days > 30
            /\ c.total_portfolio_value < 5000
            /\ c.total_transactions < 50
    THEN VirginCT
    ELSE "Unclassified"

\* --------------------------------------------- PersonaAnalyzer (legacy)
\* A transaction record's "timeStamp" field: absent or empty ("missing"),
\* a decimal string ("ok", t its datetime), or a string int() rejects ("bad").
TsOk(t) == [kind |-> "ok", t |-> t]
TsMissing == [kind |-> "missing", t |-> 0]
TsBad == [kind |-> "bad", t |-> 0]

SeqMin(ts) == CHOOSE m \in {ts[i] : i \in 1..Len(ts)} :
                 \A i \in 1..Len(ts) : m <= ts[i]

\* _gather_wallet_data, "Calculate first and last transaction dates":
\*   timestamps = [int(tx.get("timeStamp", 0)) for tx in all if tx.get("timeStamp")]
\*   if timestamps: first_transaction_date = datetime.fromtimestamp(min(timestamps))
\* int() raising ValueError is caught by the method's except: the date stays None.
_gather_wallet_data(txs) ==
    LET present == SelectSeq(txs, LAMBDA tx : tx.timeStamp.kind # "missing")
        raises == \E i \in 1..Len(present) : present[i].timeStamp.kind = "bad"
        timestamps == [i \in 1..Len(present) |-> present[i].timeStamp.t]
    IN [first_transaction_date |->
            IF raises \/ Len(timestamps) = 0 THEN None ELSE Some(SeqMin(timestamps))]

\* PersonaMetric.evaluate
evaluate(metric, value) ==
    CASE metric.comparison_operator = "gt" -> value > metric.threshold_value
      [] metric.comparison_operator = "lt" -> value < metric.threshold_value
      [] metric.comparison_operator = "gte" -> value >= metric.threshold_value
      [] metric.comparison_operator = "lte" -> value <= metric.threshold_value
      [] metric.comparison_operator = "eq" -> value = metric.threshold_value
      [] OTHER -> FALSE

\* The wallet-age entries of PersonaAnalyzer._define_metrics
WalletAgeMetrics ==
    << [name |-> "wallet_created_before_2020",
        threshold_value |-> DateTime(2020, 0), comparison_operator |-> "lt"],
       [name |-> "wallet_created_after_2023",
        threshold_value |-> DateTime(2023, 0), comparison_operator |-> "gt"] >>

\* _calculate_metric_value, the wallet_created_* branch:
\*   return first_tx_date if first_tx_date else datetime.now()
_calculate_metric_value(metric, wd, now) ==
    IF wd.first_transaction_date # None THEN wd.first_transaction_date[1] ELSE now

\* analyze_wallet's loop "for metric in self.metrics": value and passed per metric
EvaluateMetrics(wd, now) ==
    [i \in 1..Len(WalletAgeMetrics) |->
        LET value == _calculate_metric_value(WalletAgeMetrics[i], wd, now)
        IN [name |-> WalletAgeMetrics[i].name, value |-> value,
            passed |-> evaluate(WalletAgeMetrics[i], value)]]

\* ------------------------------------------------ inputs of the classifier
\* Each set holds every threshold of the battery and one value of each class
\* the thresholds cut out (e.g. 60 is both the boundary of > 0.6 and a value
\* in (0.5, 0.6]).
ConcentrationInputs == {50, 60, 70, 71}
HoldingInputs == {89, 90, 365, 366}
TopValueInputs == {2000, 2001, 5000}
ActiveDaysInputs == {30, 120, 180, 181}
SwapCountInputs == {100, 101}
PortfolioValueInputs == {4999, 5000}
TransactionInputs == {49, 50}
DateInputs ==
    {DateTime(2019, TicksPerYear - 1), DateTime(2020, 0), DateTime(2023, 0),
     DateTime(2023, 1), DateTime(2024, 0)}
CreationDateInputs == {None} \cup {Some(d) : d \in DateInputs}
\* datetime.now() of a run of the program
NowInputs == {DateTime(2024, 1), DateTime(2026, 1)}

CriteriaInputs ==
    [token_concentration : ConcentrationInputs,
     longest_holding_days : HoldingInputs,
     top_value : TopValueInputs,
     wallet_creation_date : CreationDateInputs,
     has_eth : BOOLEAN,
     active_days : ActiveDaysInputs,
     swap_count : SwapCountInputs,
     is_top_asset_token_not_eth : BOOLEAN,
     total_portfolio_value : PortfolioValueInputs,
     total_transactions : TransactionInputs]

\* Bounded sequences over S
SeqsUpTo(S, n) == UNION {[1..k -> S] : k \in 0..n}

AnalyzerIdle == /\ all_transactions = <<>>
                /\ wallet_data = None
                /\ results = None

ClassifierIdle == /\ criteria = None
                  /\ detailed_metrics = None
                  /\ persona = None
                  /\ last_persona_scores = None
                  /\ last_best_score = None

\* The addresses one PersonaClassifier instance is asked to classify
Addresses == {"0xA", "0xB"}

NoData == [portfolio |-> None, activity |-> None, swap_activity |-> None]

TasksIdle == /\ task_pc = [a \in Addresses |-> "idle"]
             /\ task_data = [a \in Addresses |-> NoData]
             /\ task_result = [a \in Addresses |-> None]
             /\ raised_at = [a \in Addresses |-> None]
             /\ formatted = [a \in Addresses |-> None]

ReducerIdle ==
    /\ transfers_in = <<>>
    /\ token_type = "ERC20"
    /\ permuted = None
    /\ metrics = None
    /\ permuted_metrics = None
    /\ token_balance = None

ActivityIdle ==
    /\ activity_call = ""
    /\ activity_response = [valid |-> FALSE, result |-> <<>>]
    /\ activity_result = None

SnapshotIdle ==
    /\ portfolio = None
    /\ top_asset = None
    /\ concentration = None

ReadIdle == property_read = "" /\ property_value = None

PureIdle == ReducerIdle /\ ActivityIdle /\ SnapshotIdle /\ ReadIdle

PortfolioIdle ==
    /\ zerion_adapter = None
    /\ etherscan_adapter = None
    /\ pricing_service = None
    /\ session = "none"
    /\ context = "bare"
    /\ pf_pc = "idle"
    /\ token_holdings = <<>>
    /\ nft_holdings = <<>>
    /\ eth_balance = 0
    /\ eth_value_usd = 0
    /\ snapshot = None

InitClassifier ==
    /\ \E c \in CriteriaInputs : criteria = Some(c)
    /\ detailed_metrics = None
    /\ persona = None
    /\ last_persona_scores = None
    /\ last_best_score = None
    /\ AnalyzerIdle
    /\ TasksIdle
    /\ PortfolioIdle
    /\ PureIdle

\* classify_persona_with_details, lines 75-79: evaluate, then score and rank
EvaluateScoreRank ==
    /\ persona = None
    /\ LET r == _determine_persona(criteria[1])
       IN /\ detailed_metrics' = Some(_calculate_detailed_metrics(criteria[1]))
          /\ persona' = Some(r.persona)
          /\ last_persona_scores' = Some(r.persona_scores)
          /\ last_best_score' = Some(r.best_score)
    /\ UNCHANGED <<criteria, analyzerVars, taskVars, portfolioVars, pureVars>>

\* a call of _determine_persona_legacy with the same criteria
DeterminePersonaLegacy ==
    /\ property_read = ""
    /\ property_read' = "_determine_persona_legacy"
    /\ property_value' = Some(_determine_persona_legacy(criteria[1]))
    /\ UNCHANGED <<classifierVars, analyzerVars, taskVars, portfolioVars,
                   reducerVars, activityVars, snapshotVars>>

NextClassifier == EvaluateScoreRank \/ DeterminePersonaLegacy

SpecClassifier == InitClassifier /\ [][NextClassifier]_vars

\* ------------------------------------------------ PersonaAnalyzer.analyze_wallet
MaxTransactions == 2

TimeStampInputs == {TsMissing, TsBad} \cup {TsOk(d) : d \in DateInputs}

InitAnalyzer ==
    /\ all_transactions \in SeqsUpTo([timeStamp : TimeStampInputs], MaxTransactions)
    /\ wallet_data = None
    /\ results = None
    /\ ClassifierIdle
    /\ TasksIdle
    /\ PortfolioIdle
    /\ PureIdle

\* analyze_wallet: gather the wallet data, then evaluate each metric
AnalyzeWallet ==
    /\ results = None
    /\ \E now \in NowInputs :
          LET wd == _gather_wallet_data(all_transactions)
          IN /\ wallet_data' = Some(wd)
             /\ results' = Some(EvaluateMetrics(wd, now))
    /\ UNCHANGED <<all_transactions, classifierVars, taskVars, portfolioVars, pureVars>>

NextAnalyzer == AnalyzeWallet

SpecAnalyzer == InitAnalyzer /\ [][NextAnalyzer]_vars

\* ------------------------- classify_persona_with_details, per address
\* What the awaited services hand back (PortfolioSnapshot properties read at
\* lines 55-72; calculate_activity_score; analyze_swap_activity;
\* get_wallet_creation_date).
PortfolioInputs ==
    { [top_value |-> 2001, token_concentration |-> 71, longest_holding_days |-> 366,
       has_eth |-> TRUE, is_top_asset_token_not_eth |-> FALSE,
       total_portfolio_value |-> 4999],
      [top_value |-> 5000, token_concentration |-> 50, longest_holding_days |-> 89,
       has_eth |-> FALSE, is_top_asset_token_not_eth |-> TRUE,
       total_portfolio_value |-> 5000] }
ActivityInputs == { [active_days |-> 30, total_transactions |-> 49],
                    [active_days |-> 181, total_transactions |-> 50] }
SwapInputs == { [swap_count |-> 100], [swap_count |-> 101] }
WalletCreationInputs == {None, Some(DateTime(2019, 1)), Some(DateTime(2024, 0))}

\* return "Error", {}, []
ErrorResult == [persona |-> "Error", criteria |-> <<>>, detailed_metrics |-> <<>>]

\* variant: the try block ends after the data gathering, so an exception of
\* the evaluate/score/rank steps is not caught
OnExceptionGatherOnly(step) ==
    IF step = "evaluate" THEN "propagated" ELSE "caught"

\* try: ... except Exception: return "Error", {}, []   (lines 36-85 cover
\* every step of the method)
OnException(step) == "caught"

\* the effect of step `step` of address a raising an Exception
Raise(a, step) ==
    /\ raised_at' = [raised_at EXCEPT ![a] = Some(step)]
    /\ IF OnException(step) = "caught"
       THEN /\ task_pc' = [task_pc EXCEPT ![a] = "returned"]
            /\ task_result' = [task_result EXCEPT ![a] = Some(ErrorResult)]
       ELSE /\ task_pc' = [task_pc EXCEPT ![a] = "propagated"]
            /\ UNCHANGED task_result
    /\ UNCHANGED <<task_data, formatted, classifierVars, analyzerVars, portfolioVars, pureVars>>

Proceed(a, pc, data) ==
    /\ task_pc' = [task_pc EXCEPT ![a] = pc]
    /\ task_data' = [task_data EXCEPT ![a] = data]
    /\ UNCHANGED <<task_result, raised_at, formatted, classifierVars, analyzerVars,
                   portfolioVars, pureVars>>

\* the call: "if portfolio is None: portfolio = await analyze_portfolio(address)";
\* a caller-supplied portfolio skips the fetch
Classify(a) ==
    /\ task_pc[a] = "idle"
    /\ \/ Proceed(a, "portfolio", task_data[a])
       \/ \E pf \in PortfolioInputs :
             Proceed(a, "activity", [task_data[a] EXCEPT !.portfolio = Some(pf)])

\* await self.portfolio_service.analyze_portfolio(address) completes
PortfolioDone(a) ==
    /\ task_pc[a] = "portfolio"
    /\ \/ \E pf \in PortfolioInputs :
             Proceed(a, "activity", [task_data[a] EXCEPT !.portfolio = Some(pf)])
       \/ Raise(a, "portfolio")

\* await self.activity_service.calculate_activity_score(address) completes
ActivityDone(a) ==
    /\ task_pc[a] = "activity"
    /\ \/ \E act \in ActivityInputs :
             Proceed(a, "swap", [task_data[a] EXCEPT !.activity = Some(act)])
       \/ Raise(a, "activity")

\* await self.activity_service.analyze_swap_activity(address) completes
SwapDone(a) ==
    /\ task_pc[a] = "swap"
    /\ \/ \E sw \in SwapInputs :
             Proceed(a, "creation", [task_data[a] EXCEPT !.swap_activity = Some(sw)])
       \/ Raise(a, "swap")

\* criteria = {...} (lines 58-73)
BuildCriteria(d, wallet_creation_date) ==
    [token_concentration |-> d.portfolio[1].token_concentration,
     longest_holding_days |-> d.portfolio[1].longest_holding_days,
     top_value |-> d.portfolio[1].top_value,
     wallet_creation_date |-> wallet_creation_date,
     has_eth |-> d.portfolio[1].has_eth,
     active_days |-> d.activity[1].active_days,
     swap_count |-> d.swap_activity[1].swap_count,
     is_top_asset_token_not_eth |-> d.portfolio[1].is_top_asset_token_not_eth,
     total_portfolio_value |-> d.portfolio[1].total_portfolio_value,
     total_transactions |-> d.activity[1].total_transactions]

\* await get_wallet_creation_date(address) completes; the rest of the method
\* has no await: criteria, _calculate_detailed_metrics, _determine_persona, return
CreationDone(a) ==
    /\ task_pc[a] = "creation"
    /\ \/ Raise(a, "creation")
       \/ Raise(a, "evaluate")
       \/ \E wcd \in WalletCreationInputs :
             LET c == BuildCriteria(task_data[a], wcd)
                 r == _determine_persona(c)
             IN /\ task_pc' = [task_pc EXCEPT ![a] = "returned"]
                /\ task_result' = [task_result EXCEPT ![a] =
                       Some([persona |-> r.persona, criteria |-> Some(c),
                             detailed_metrics |-> _calculate_detailed_metrics(c)])]
                /\ last_persona_scores' = Some(r.persona_scores)
                /\ last_best_score' = Some(r.best_score)
                /\ UNCHANGED <<task_data, raised_at, formatted, criteria,
                               detailed_metrics, persona, analyzerVars,
                               portfolioVars, pureVars>>

\* f"{confidence_percentage:.1f}": the percentage in tenths of a percent
ConfidenceTenths(best_score) ==
    (2000 * best_score[1] + best_score[2]) \div (2 * best_score[2])

\* confidence_percentage >= 80 / 60 / 40
ConfidenceLevel(best_score) ==
    IF 100 * best_score[1] >= 80 * best_score[2] THEN "High"
    ELSE IF 100 * best_score[1] >= 60 * best_score[2] THEN "Medium"
    ELSE IF 100 * best_score[1] >= 40 * best_score[2] THEN "Low"
    ELSE "Very Low"

\* format_persona_analysis(persona, criteria): the header it builds
format_persona_analysis(p, c, scores, best_score) ==
    IF p = "Error" THEN [kind |-> "error", persona |-> p, confidence |-> None]
    ELSE IF c = <<>> THEN [kind |-> "no portfolio", persona |-> p, confidence |-> None]
    ELSE [kind |-> "analysis", persona |-> p,
          confidence |->
             IF scores # None /\ best_score # None
             THEN Some([tenths |-> ConfidenceTenths(best_score[1]),
                        level |-> ConfidenceLevel(best_score[1])])
             ELSE None]

\* the caller formats the result it got for address a
Format(a) ==
    /\ task_pc[a] = "returned"
    /\ formatted[a] = None
    /\ formatted' = [formatted EXCEPT ![a] =
          Some(format_persona_analysis(task_result[a][1].persona,
                                       task_result[a][1].criteria,
                                       last_persona_scores, last_best_score))]
    /\ UNCHANGED <<task_pc, task_data, task_result, raised_at,
                   classifierVars, analyzerVars, portfolioVars, pureVars>>

InitClassify ==
    /\ TasksIdle
    /\ ClassifierIdle
    /\ AnalyzerIdle
    /\ PortfolioIdle
    /\ PureIdle

NextClassify ==
    \E a \in Addresses :
        \/ Classify(a)
        \/ PortfolioDone(a)
        \/ ActivityDone(a)
        \/ SwapDone(a)
        \/ CreationDone(a)
        \/ Format(a)

SpecClassify == InitClassify /\ [][NextClassify]_vars

\* ======================================================================
\* PortfolioService (services/portfolio_service.py)
\*
\*  - USD amounts (value_usd, price_usd, estimated_value_usd) are in cents.
\*  - A balance is a whole number of tokens; a transfer's value field is
\*    counted in units of 10^decimals base units, so that the division by
\*    10**decimals of _get_token_holdings_etherscan yields the field itself
\*    (10^18 does not fit TLC's integers).
\*  - A timestamp is a day number; Today is the day datetime.now() falls on.
\*  - A numeric text that int()/float() rejects is None.
\* ======================================================================
Max(a, b) == IF a >= b THEN a ELSE b

\* str.lower() on the addresses that occur
Lower(s) ==
    CASE s = "0xWallet" -> "0xwallet"
      [] s = "0xWALLET" -> "0xwallet"
      [] s = "0x833589fCD6eDb6E08f4c7C32D4f71b54bdA02913"
             -> "0x833589fcd6edb6e08f4c7c32d4f71b54bda02913"
      [] s = "0xDeaD01" -> "0xdead01"
      [] s = "0xApes01" -> "0xapes01"
      [] OTHER -> s

\* str.upper() on the symbols that occur
Upper(s) ==
    CASE s = "eth" -> "ETH"
      [] s = "Eth" -> "ETH"
      [] OTHER -> s

\* contract_address[:6]
Prefix6(s) ==
    CASE s = "0xdead01" -> "0xdead"
      [] s = "0xapes01" -> "0xapes"
      [] s = "0x833589fcd6edb6e08f4c7c32d4f71b54bda02913" -> "0x8335"
      [] OTHER -> s

WalletAddress == "0xWallet"
USDC == "0x833589fcd6edb6e08f4c7c32d4f71b54bda02913"
USDbC == "0xd9aaec86b65d86f6a7b5b1b0c42ffa531710b6ca"
WETH == "0x4200000000000000000000000000000000000006"
DAI == "0x50c5725949a6f0c72e6c4a641f24049a917db0cb"

known_tokens ==
    [a \in {USDC, WETH, DAI, USDbC} |->
        CASE a = USDC -> [symbol |-> "USDC", decimals |-> 6]
          [] a = WETH -> [symbol |-> "WETH", decimals |-> 18]
          [] a = DAI -> [symbol |-> "DAI", decimals |-> 18]
          [] a = USDbC -> [symbol |-> "USDbC", decimals |-> 6]]

\* datetime.now(), as a day number
Today == 1000

\* TokenHolding(...) with the dataclass defaults (no acquisition date given)
TokenHolding(contract_address, symbol, balance, decimals, price_usd, value_usd) ==
    [contract_address |-> contract_address, symbol |-> symbol,
     balance |-> balance, decimals |-> decimals,
     price_usd |-> price_usd, value_usd |-> value_usd,
     acquisition_date |-> None, last_activity_date |-> None,
     holding_period_days |-> 0,
     total_acquired |-> 0, total_sold |-> 0,
     acquisition_transactions |-> 0, sale_transactions |-> 0]

\* NFTHolding(...) followed by __post_init__: the legacy acquired_date becomes
\* the acquisition date and the holding period is counted from it
NFTHolding(contract_address, token_id, collection_name, est, floor, token_count, acquired_date) ==
    [contract_address |-> contract_address, token_id |-> token_id,
     collection_name |-> collection_name,
     estimated_value_usd |-> est,
     floor_price_usd |-> floor, token_count |-> token_count,
     acquisition_date |-> acquired_date,
     holding_period_days |->
        IF acquired_date # None THEN Today - acquired_date[1] ELSE 0,
     token_ids |-> None]

\* one record of an Etherscan transfer list
Transfer(contractAddress, from, to, value, timeStamp, tokenID, tokenName) ==
    [contractAddress |-> contractAddress, from |-> from, to |-> to,
     value |-> value, timeStamp |-> timeStamp,
     tokenID |-> tokenID, tokenName |-> tokenName]

\* response and validate_response(response): a usable Etherscan response
Valid(response) == response.valid

\* the keys of a defaultdict filled in list order
RECURSIVE DistinctInOrder(_)
DistinctInOrder(s) ==
    IF s = <<>> THEN <<>>
    ELSE LET r == DistinctInOrder(SubSeq(s, 1, Len(s) - 1))
             l == s[Len(s)]
         IN IF \E i \in 1..Len(r) : r[i] = l THEN r ELSE Append(r, l)

\* ---- float arithmetic. A Python float keeps 53 significant bits; the model
\* keeps FloatBits of them, so that 2^FloatBits plays the part of 2^53: an
\* integer below it is exact, a larger one is rounded to the nearest
\* representable value, ties to even.
FloatBits == 4

\* the least e with n < 2^(FloatBits + e), for n >= 0
RECURSIVE ExponentOf(_, _)
ExponentOf(n, e) == IF n < 2^(FloatBits + e) THEN e ELSE ExponentOf(n, e + 1)

\* q * 2^e + r rounded to a multiple of 2^e, a tie going to the even multiple
RoundParts(q, r, e) ==
    IF 2 * r > 2^e \/ (2 * r = 2^e /\ q % 2 = 1) THEN (q + 1) * 2^e ELSE q * 2^e

RoundAt(n, e) == RoundParts(n \div 2^e, n % 2^e, e)

RoundMagnitude(n) == RoundAt(n, ExponentOf(n, 0))

\* the integers the model's sums stay within
FloatRange == (0 - 2^(FloatBits + 3))..(2^(FloatBits + 3))

\* the float nearest to each integer of the range
Nearest ==
    [n \in FloatRange |-> IF n >= 0 THEN RoundMagnitude(n) ELSE 0 - RoundMagnitude(0 - n)]

\* float(n): the float nearest to the integer n
RoundFloat(n) == Nearest[n]

\* a + b and a - b on floats
FAdd(a, b) == Nearest[a + b]
FSub(a, b) == Nearest[a - b]

\* the number that stands for an integer under the arithmetic of a token type:
\* ERC20 values are floats, ERC721 and ERC1155 values are Python integers
Rounding ==
    [tt \in {"ERC20", "ERC721", "ERC1155"} |->
        [n \in FloatRange |-> IF tt = "ERC20" THEN Nearest[n] ELSE n]]

RECURSIVE BalanceLoop(_, _, _, _)
BalanceLoop(addr, transfers, i, balance) ==
    IF i > Len(transfers) THEN balance
    ELSE LET t == transfers[i]
         IN IF t.value = None
            THEN BalanceLoop(addr, transfers, i + 1, balance)
            ELSE IF Lower(t.to) = Lower(addr)
            THEN BalanceLoop(addr, transfers, i + 1,
                             FAdd(balance, RoundFloat(t.value[1])))
            ELSE IF Lower(t.from) = Lower(addr)
            THEN BalanceLoop(addr, transfers, i + 1,
                             FSub(balance, RoundFloat(t.value[1])))
            ELSE BalanceLoop(addr, transfers, i + 1, balance)

_calculate_token_balance(addr, contract_address, transfers) ==
    Max(0, BalanceLoop(addr, transfers, 1, 0))

RECURSIVE TokenHoldingsLoop(_, _, _, _, _)
TokenHoldingsLoop(addr, transfers, keys, i, holdings) ==
    IF i > Len(keys) THEN holdings
    ELSE LET contract_address == keys[i]
             token_transfers_list ==
                 SelectSeq(transfers,
                           LAMBDA t : Lower(t.contractAddress) = contract_address)
             balance == _calculate_token_balance(addr, contract_address,
                                                 token_transfers_list)
             known == contract_address \in DOMAIN known_tokens
             symbol == IF known THEN known_tokens[contract_address].symbol
                       ELSE "TOKEN-" \o Prefix6(contract_address)
             decimals == IF known THEN known_tokens[contract_address].decimals
                         ELSE 18
         IN TokenHoldingsLoop(addr, transfers, keys, i + 1,
               IF balance > 0
               THEN Append(holdings,
                           TokenHolding(contract_address, symbol, balance,
                                        decimals, 0, 0))
               ELSE holdings)

_get_token_holdings_etherscan(adapter, addr) ==
    IF ~Valid(adapter.erc20) THEN <<>>
    ELSE LET transfers == SelectSeq(adapter.erc20.result,
                                    LAMBDA t : t.contractAddress # "")
             keys == DistinctInOrder(
                        [i \in 1..Len(transfers) |-> Lower(transfers[i].contractAddress)])
         IN TokenHoldingsLoop(addr, transfers, keys, 1, <<>>)

\* max(token_transfers_list, key=int(timeStamp)): the first record carrying the
\* greatest timestamp
LatestTransfer(ts) ==
    ts[CHOOSE i \in 1..Len(ts) :
          /\ \A j \in 1..Len(ts) : ts[j].timeStamp[1] <= ts[i].timeStamp[1]
          /\ \A j \in 1..(i - 1) : ts[j].timeStamp[1] < ts[i].timeStamp[1]]

\* a holding per (contract, token id) whose latest transfer is inbound; a
\* timestamp int() rejects raises ValueError, which the except clause of the
\* method turns into "return what was collected so far"
RECURSIVE NftHoldingsLoop(_, _, _, _, _)
NftHoldingsLoop(addr, transfers, keys, i, holdings) ==
    IF i > Len(keys) THEN holdings
    ELSE LET key == keys[i]
             token_transfers_list ==
                 SelectSeq(transfers,
                           LAMBDA t : <<Lower(t.contractAddress), t.tokenID>> = key)
         IN IF \E j \in 1..Len(token_transfers_list) :
                   token_transfers_list[j].timeStamp = None
            THEN holdings
            ELSE LET latest_transfer == LatestTransfer(token_transfers_list)
                 IN NftHoldingsLoop(addr, transfers, keys, i + 1,
                       IF Lower(latest_transfer.to) = Lower(addr)
                       THEN Append(holdings,
                               NFTHolding(key[1], key[2],
                                          IF latest_transfer.tokenName # None
                                          THEN latest_transfer.tokenName[1]
                                          ELSE "Collection-" \o Prefix6(key[1]),
                                          0, 0, 1,
                                          Some(latest_transfer.timeStamp[1])))
                       ELSE holdings)

_get_nft_holdings_etherscan(adapter, addr) ==
    IF ~Valid(adapter.erc721) THEN <<>>
    ELSE LET transfers == SelectSeq(adapter.erc721.result,
                             LAMBDA t : t.contractAddress # "" /\ t.tokenID # "")
             keys == DistinctInOrder(
                        [i \in 1..Len(transfers) |->
                            <<Lower(transfers[i].contractAddress), transfers[i].tokenID>>])
         IN NftHoldingsLoop(addr, transfers, keys, 1, <<>>)

\* int(response["result"]) / 1e18, or 0.0 on an unusable response or text
_get_eth_balance(adapter, addr) ==
    IF Valid(adapter.ether_balance) /\ adapter.ether_balance.result # None
    THEN adapter.ether_balance.result[1]
    ELSE 0

\* PricingService.get_eth_price: 0.0 without a session or on any failure
get_eth_price(pricing, sess) ==
    IF sess = "none" THEN 0 ELSE pricing.eth_price

\* PricingService.get_token_prices: {} without a session or on any failure
get_token_prices(pricing, sess, token_addresses) ==
    IF sess = "none" \/ token_addresses = <<>> THEN <<>> ELSE pricing.token_prices

\* token_prices.get(address.lower(), 0.0); a price table is a sequence of
\* <<address, price>> pairs with distinct addresses
PriceOf(token_prices, a) ==
    IF \E i \in 1..Len(token_prices) : token_prices[i][1] = Lower(a)
    THEN token_prices[CHOOSE i \in 1..Len(token_prices) :
                         token_prices[i][1] = Lower(a)][2]
    ELSE 0

\* the pricing loop over the transfer-based token holdings
PriceHoldings(ths, token_prices) ==
    [i \in 1..Len(ths) |->
        [ths[i] EXCEPT !.price_usd = PriceOf(token_prices, ths[i].contract_address),
                       !.value_usd = ths[i].balance
                                     * PriceOf(token_prices, ths[i].contract_address)]]

\* what the four locals of analyze_portfolio are after a fetch
PortfolioData(ths, nhs, bal, val) ==
    [token_holdings |-> ths, nft_holdings |-> nhs,
     eth_balance |-> bal, eth_value_usd |-> val]

\* analyze_portfolio without a Zerion adapter (lines 55-74)
EtherscanBranch(adapter, pricing, sess, addr) ==
    LET ths == _get_token_holdings_etherscan(adapter, addr)
        nhs == _get_nft_holdings_etherscan(adapter, addr)
        bal == _get_eth_balance(adapter, addr)
        eth_price == get_eth_price(pricing, sess)
        token_addresses == [i \in 1..Len(ths) |-> ths[i].contract_address]
    IN PortfolioData(
          IF token_addresses # <<>>
          THEN PriceHoldings(ths, get_token_prices(pricing, sess, token_addresses))
          ELSE ths,
          nhs, bal, bal * eth_price)

\* variant: the fallback keeps what was collected from Zerion before the failure
\* and appends the transfer-based holdings to it
_get_etherscan_fallback_data_merging(adapter, pricing, sess, addr, partial) ==
    LET d == EtherscanBranch(adapter, pricing, sess, addr)
    IN PortfolioData(partial.token_holdings \o d.token_holdings,
                     partial.nft_holdings \o d.nft_holdings,
                     partial.eth_balance + d.eth_balance,
                     partial.eth_value_usd + d.eth_value_usd)

\* _get_etherscan_fallback_data (lines 514-534); partial is what
\* _get_zerion_portfolio_data had collected, which the fallback does not see
_get_etherscan_fallback_data(adapter, pricing, sess, addr, partial) ==
    LET ths == _get_token_holdings_etherscan(adapter, addr)
        nhs == _get_nft_holdings_etherscan(adapter, addr)
        bal == _get_eth_balance(adapter, addr)
        eth_price == get_eth_price(pricing, sess)
        token_addresses == [i \in 1..Len(ths) |-> ths[i].contract_address]
    IN PortfolioData(
          IF token_addresses # <<>>
          THEN PriceHoldings(ths, get_token_prices(pricing, sess, token_addresses))
          ELSE ths,
          nhs, bal, bal * eth_price)

\* ------------------------------------------------ the authoritative path
\* one entry of positions_response["data"]: fungible_info present or not, the
\* implementation whose chain_id is "base" (None when there is none),
\* quantity.float, value and price (None: a text float() rejects)
Position(fungible_info, symbol, base_impl, quantity, value, price) ==
    [fungible_info |-> fungible_info, symbol |-> symbol,
     base_impl |-> base_impl, quantity |-> quantity,
     value |-> value, price |-> price]

\* an entry of fungible_info.implementations
Implementation(address, decimals) == [address |-> address, decimals |-> decimals]

\* one entry of nft_response["data"]: collection_info (None: JSON null),
\* nfts_count (None: a text int() rejects), total_floor_price and the parts
\* of relationships.nft_collection.data.id split at ":" (<<>>: no relationships)
Collection(collection_info, nfts_count, total_floor_price, id_parts) ==
    [collection_info |-> collection_info, nfts_count |-> nfts_count,
     total_floor_price |-> total_floor_price, id_parts |-> id_parts]

\* value_usd < 1 / total_floor_price_usd < 1, in cents
MinValueUsd == 100

\* the loop body with the filter at $5 instead of $1
ProcessPosition_min5(d, position) ==
    IF ~position.fungible_info THEN d
    ELSE IF position.quantity = None \/ position.value = None
            \/ position.price = None
    THEN d
    ELSE IF position.value[1] < 5 * MinValueUsd THEN d
    ELSE IF position.base_impl = None /\ Upper(position.symbol) = "ETH"
    THEN [d EXCEPT !.eth_balance = @ + position.quantity[1],
                   !.eth_value_usd = @ + position.value[1]]
    ELSE IF position.base_impl # None /\ position.quantity[1] > 0
    THEN [d EXCEPT !.token_holdings =
             Append(@, TokenHolding(Lower(position.base_impl[1].address),
                                    position.symbol, position.quantity[1],
                                    position.base_impl[1].decimals,
                                    position.price[1], position.value[1]))]
    ELSE d

\* the body of the loop over positions, applied to the data collected so far
ProcessPosition(d, position) ==
    IF ~position.fungible_info THEN d
    ELSE IF position.quantity = None \/ position.value = None
            \/ position.price = None
    THEN d                               \* except Exception: continue
    ELSE IF position.value[1] < MinValueUsd THEN d
    ELSE IF position.base_impl = None /\ Upper(position.symbol) = "ETH"
    THEN [d EXCEPT !.eth_balance = @ + position.quantity[1],
                   !.eth_value_usd = @ + position.value[1]]
    ELSE IF position.base_impl # None /\ position.quantity[1] > 0
    THEN [d EXCEPT !.token_holdings =
             Append(@, TokenHolding(Lower(position.base_impl[1].address),
                                    position.symbol, position.quantity[1],
                                    position.base_impl[1].decimals,
                                    position.price[1], position.value[1]))]
    ELSE d

RECURSIVE PositionsLoop(_, _, _)
PositionsLoop(d, data, i) ==
    IF i > Len(data) THEN d
    ELSE PositionsLoop(ProcessPosition(d, data[i]), data, i + 1)

\* contract_address or nft_collection_id
CollectionContract(id_parts) ==
    IF id_parts = <<>> THEN ""
    ELSE IF Len(id_parts) >= 2 THEN id_parts[2]
    ELSE id_parts[1]

\* the body of the loop over collections; an AttributeError (collection_info is
\* null) is not among the exceptions the loop catches
CollectionRaises(collection) == collection.collection_info = None

ProcessCollection(d, collection) ==
    IF collection.nfts_count = None THEN d      \* except (ValueError, TypeError)
    ELSE IF collection.total_floor_price < MinValueUsd THEN d
    ELSE IF collection.nfts_count[1] > 0
    THEN [d EXCEPT !.nft_holdings =
             Append(@, NFTHolding(CollectionContract(collection.id_parts),
                                  "collection",
                                  collection.collection_info[1],
                                  collection.total_floor_price,
                                  collection.total_floor_price
                                     \div collection.nfts_count[1],
                                  collection.nfts_count[1], None))]
    ELSE d

\* the result of the loop over collections: the data, or "raised"
RECURSIVE CollectionsLoop(_, _, _)
CollectionsLoop(d, data, i) ==
    IF i > Len(data) THEN [raised |-> FALSE, data |-> d]
    ELSE IF CollectionRaises(data[i]) THEN [raised |-> TRUE, data |-> d]
    ELSE CollectionsLoop(ProcessCollection(d, data[i]), data, i + 1)

EmptyData == PortfolioData(<<>>, <<>>, 0, 0)

\* a Zerion adapter call: "raises" (an exception leaves the adapter),
\* "none" (BaseAdapter.get returned None), "malformed" (JSON that is not an
\* object, so that .get raises AttributeError) or "ok" with its data list
Response(kind, data) == [kind |-> kind, data |-> data]

\* the point of _get_zerion_portfolio_data at which an exception reaches its
\* outer except clause, or "no"
ZerionRaisedAt(zerion) ==
    IF zerion.positions.kind \in {"raises", "malformed"} THEN "positions"
    ELSE IF zerion.nft_collections.kind \in {"raises", "malformed"} THEN "nft_collections"
    ELSE IF zerion.nft_collections.kind = "ok"
            /\ CollectionsLoop(EmptyData, zerion.nft_collections.data, 1).raised
    THEN "collection"
    ELSE "no"

\* what the try block had collected when it ended
ZerionCollected(zerion) ==
    LET afterPositions ==
            IF zerion.positions.kind = "ok"
            THEN PositionsLoop(EmptyData, zerion.positions.data, 1)
            ELSE EmptyData
    IN IF zerion.positions.kind \in {"raises", "malformed"} THEN EmptyData
       ELSE IF zerion.nft_collections.kind = "ok"
       THEN CollectionsLoop(afterPositions, zerion.nft_collections.data, 1).data
       ELSE afterPositions

\* _get_zerion_portfolio_data (lines 361-512)
_get_zerion_portfolio_data(zerion, adapter, pricing, sess, addr) ==
    IF ZerionRaisedAt(zerion) # "no"
    THEN _get_etherscan_fallback_data(adapter, pricing, sess, addr,
                                      ZerionCollected(zerion))
    ELSE ZerionCollected(zerion)

\* ------------------------------------------------ holding-period enrichment
\* list.sort(key=int(timeStamp)): stable insertion by timestamp
RECURSIVE SortByTimeStamp(_)
SortByTimeStamp(ts) ==
    IF Len(ts) <= 1 THEN ts
    ELSE LET sorted == SortByTimeStamp(SubSeq(ts, 1, Len(ts) - 1))
             x == ts[Len(ts)]
             k == Cardinality({i \in 1..Len(sorted) :
                                  sorted[i].timeStamp[1] <= x.timeStamp[1]})
         IN SubSeq(sorted, 1, k) \o <<x>> \o SubSeq(sorted, k + 1, Len(sorted))

\* int(x.get("timeStamp", "0")) raises ValueError for some record of the list
SortRaises(ts) == \E i \in 1..Len(ts) : ts[i].timeStamp = None

InitialMetrics ==
    [first_acquisition |-> None, last_activity |-> None,
     holding_period_days |-> 0, total_acquired |-> 0, total_sold |-> 0,
     acquisition_count |-> 0, sale_count |-> 0, current_balance |-> 0,
     acquisitions |-> <<>>]

\* the value a record carries for the token type (None: the text is rejected):
\* 1 for ERC721, int(value) for ERC1155, float(value) for ERC20
TransferValue(t, tt) ==
    IF tt = "ERC721" THEN Some(1)
    ELSE IF t.value = None THEN None
    ELSE Some(Rounding[tt][t.value[1]])

\* x += value and x -= value: float arithmetic once a float value (ERC20) is
\* involved, exact on Python integers otherwise
Plus(x, value, tt) == Rounding[tt][x + value]
Minus(x, value, tt) == Rounding[tt][x - value]

\* one iteration of the loop of _calculate_detailed_holding_metrics;
\* m.current_balance is the running, not yet clamped, balance
\* lines 984-998: an incoming transfer is an acquisition, else an outgoing one
\* is a sale
TrackTransfer(addr, m, t, value, tt) ==
    IF Lower(t.to) = Lower(addr)
    THEN [m EXCEPT !.acquisitions = Append(@, t.timeStamp[1]),
                   !.current_balance = Plus(@, value, tt),
                   !.acquisition_count = @ + 1,
                   !.total_acquired = Plus(@, value, tt)]
    ELSE IF Lower(t.from) = Lower(addr)
    THEN [m EXCEPT !.current_balance = Minus(@, value, tt),
                   !.sale_count = @ + 1,
                   !.total_sold = Plus(@, value, tt)]
    ELSE m

\* lines 1000-1005
UpdateLastActivity(m, transfer_date) ==
    [m EXCEPT !.last_activity =
        IF @ = None \/ transfer_date > @[1] THEN Some(transfer_date) ELSE @]

ReduceTransfer(addr, m, t, tt) ==
    IF t.timeStamp = None \/ TransferValue(t, tt) = None
    THEN m                               \* except (ValueError, TypeError): continue
    ELSE UpdateLastActivity(TrackTransfer(addr, m, t, TransferValue(t, tt)[1], tt),
                            t.timeStamp[1])

RECURSIVE ReduceLoop(_, _, _, _, _)
ReduceLoop(addr, m, transfers, i, tt) ==
    IF i > Len(transfers) THEN m
    ELSE ReduceLoop(addr, ReduceTransfer(addr, m, transfers[i], tt),
                    transfers, i + 1, tt)

MinOf(s) == CHOOSE x \in {s[i] : i \in 1..Len(s)} :
                \A i \in 1..Len(s) : x <= s[i]

\* lines 1010-1014: the date of the earliest acquisition
FirstAcquisition(m) ==
    IF m.acquisitions # <<>> THEN Some(MinOf(m.acquisitions)) ELSE None

\* the dict returned, given the first acquisition and the balance reported
ReturnedMetrics(m, first, balance) ==
    [first_acquisition |-> first,
     last_activity |-> m.last_activity,
     holding_period_days |-> IF first # None THEN Today - first[1] ELSE 0,
     total_acquired |-> m.total_acquired,
     total_sold |-> m.total_sold,
     acquisition_count |-> m.acquisition_count,
     sale_count |-> m.sale_count,
     current_balance |-> balance]

\* lines 1008-1024 without the clamp of line 1022
AfterLoopUnclamped(m) == ReturnedMetrics(m, FirstAcquisition(m), m.current_balance)

\* lines 1008-1024
AfterLoop(m) == ReturnedMetrics(m, FirstAcquisition(m), Max(0, m.current_balance))

\* the reducer without the clamp of line 1022
_calculate_detailed_holding_metrics_unclamped(addr, transfers, tt) ==
    AfterLoopUnclamped(ReduceLoop(addr, InitialMetrics, transfers, 1, tt))

_calculate_detailed_holding_metrics(addr, transfers, tt) ==
    AfterLoop(ReduceLoop(addr, InitialMetrics, transfers, 1, tt))

\* variant: the enrichment also overwrites the balance with the reducer's
EnrichToken_rebalanced(holding, a) ==
    [holding EXCEPT !.acquisition_date = a.first_acquisition,
                    !.last_activity_date = a.last_activity,
                    !.holding_period_days = a.holding_period_days,
                    !.total_acquired = a.total_acquired,
                    !.total_sold = a.total_sold,
                    !.acquisition_transactions = a.acquisition_count,
                    !.sale_transactions = a.sale_count,
                    !.balance = a.current_balance]

\* lines 638-645: the metrics are copied to the token holding
EnrichToken(holding, a) ==
    [holding EXCEPT !.acquisition_date = a.first_acquisition,
                    !.last_activity_date = a.last_activity,
                    !.holding_period_days = a.holding_period_days,
                    !.total_acquired = a.total_acquired,
                    !.total_sold = a.total_sold,
                    !.acquisition_transactions = a.acquisition_count,
                    !.sale_transactions = a.sale_count]

\* lines 753-756: the acquisition date and the holding period are copied to
\* the NFT holding
EnrichNft(holding, a) ==
    [holding EXCEPT !.acquisition_date = a.first_acquisition,
                    !.holding_period_days = a.holding_period_days]

\* the loop over token_holdings of _analyze_erc20_holding_periods; an
\* exception of the sort ends the loop (except Exception of the method)
RECURSIVE Erc20Loop(_, _, _, _)
Erc20Loop(addr, all_transfers, ths, i) ==
    IF i > Len(ths) THEN ths
    ELSE LET contract_addr == Lower(ths[i].contract_address)
             transfers_for_token ==
                 SelectSeq(all_transfers,
                           LAMBDA t : t.contractAddress # ""
                                      /\ Lower(t.contractAddress) = contract_addr)
         IN IF transfers_for_token = <<>> THEN Erc20Loop(addr, all_transfers, ths, i + 1)
            ELSE IF SortRaises(transfers_for_token) THEN ths
            ELSE Erc20Loop(addr, all_transfers,
                    [ths EXCEPT ![i] =
                        EnrichToken(@, _calculate_detailed_holding_metrics(
                            addr, SortByTimeStamp(transfers_for_token), "ERC20"))],
                    i + 1)

_analyze_erc20_holding_periods(adapter, addr, ths) ==
    IF ~Valid(adapter.erc20) THEN ths
    ELSE Erc20Loop(addr, adapter.erc20.result, ths, 1)

\* the loop over nft_holdings of _analyze_erc721_holding_periods
RECURSIVE Erc721Loop(_, _, _, _)
Erc721Loop(addr, all_transfers, nhs, i) ==
    IF i > Len(nhs) THEN nhs
    ELSE LET contract_addr == Lower(nhs[i].contract_address)
             grouped == SelectSeq(all_transfers, LAMBDA t : t.contractAddress # "")
             transfers_for_nft ==
                 SelectSeq(grouped,
                           LAMBDA t : /\ Lower(t.contractAddress) = contract_addr
                                      /\ t.tokenID = nhs[i].token_id)
             collection_transfers_list ==
                 SelectSeq(grouped,
                           LAMBDA t : Lower(t.contractAddress) = contract_addr)
             acquisitions ==
                 SelectSeq(collection_transfers_list,
                           LAMBDA t : Lower(t.to) = Lower(addr))
         IN IF nhs[i].token_id # ""
            THEN \* an individual NFT
                 IF transfers_for_nft = <<>>
                 THEN Erc721Loop(addr, all_transfers, nhs, i + 1)
                 ELSE IF SortRaises(transfers_for_nft) THEN nhs
                 ELSE Erc721Loop(addr, all_transfers,
                         [nhs EXCEPT ![i] =
                             EnrichNft(@, _calculate_detailed_holding_metrics(
                                 addr, SortByTimeStamp(transfers_for_nft), "ERC721"))],
                         i + 1)
            ELSE \* a collection-level holding
                 IF collection_transfers_list = <<>>
                 THEN Erc721Loop(addr, all_transfers, nhs, i + 1)
                 ELSE IF SortRaises(collection_transfers_list) THEN nhs
                 ELSE IF acquisitions = <<>>
                 THEN Erc721Loop(addr, all_transfers, nhs, i + 1)
                 ELSE LET earliest ==
                              MinOf([j \in 1..Len(acquisitions) |->
                                        acquisitions[j].timeStamp[1]])
                      IN Erc721Loop(addr, all_transfers,
                            [nhs EXCEPT ![i] =
                                [@ EXCEPT !.acquisition_date = Some(earliest),
                                          !.holding_period_days = Today - earliest]],
                            i + 1)

_analyze_erc721_holding_periods(adapter, addr, nhs) ==
    IF ~Valid(adapter.erc721) THEN nhs
    ELSE Erc721Loop(addr, adapter.erc721.result, nhs, 1)

\* the index of the first holding of the contract and token id, 0 when none
ExistingHolding(nhs, contract_addr, token_id) ==
    IF \E i \in 1..Len(nhs) : /\ Lower(nhs[i].contract_address) = contract_addr
                              /\ nhs[i].token_id = token_id
    THEN CHOOSE i \in 1..Len(nhs) :
            /\ Lower(nhs[i].contract_address) = contract_addr
            /\ nhs[i].token_id = token_id
            /\ \A j \in 1..(i - 1) : ~(/\ Lower(nhs[j].contract_address) = contract_addr
                                       /\ nhs[j].token_id = token_id)
    ELSE 0

\* the loop over the (contract, token id) groups of _analyze_erc1155_holding_periods
RECURSIVE Erc1155Loop(_, _, _, _, _)
Erc1155Loop(addr, all_transfers, keys, i, nhs) ==
    IF i > Len(keys) THEN nhs
    ELSE LET transfers_list ==
                 SelectSeq(all_transfers,
                           LAMBDA t : /\ t.contractAddress # ""
                                      /\ <<Lower(t.contractAddress), t.tokenID>> = keys[i])
         IN IF SortRaises(transfers_list) THEN nhs
            ELSE LET sorted == SortByTimeStamp(transfers_list)
                     latest_transfer == LatestTransfer(sorted)
                     k == ExistingHolding(nhs, keys[i][1], keys[i][2])
                 IN Erc1155Loop(addr, all_transfers, keys, i + 1,
                       IF Lower(latest_transfer.to) = Lower(addr) /\ k # 0
                       THEN [nhs EXCEPT ![k] =
                               EnrichNft(@, _calculate_detailed_holding_metrics(
                                                addr, sorted, "ERC1155"))]
                       ELSE nhs)

_analyze_erc1155_holding_periods(adapter, addr, nhs) ==
    IF ~Valid(adapter.erc1155) THEN nhs
    ELSE LET all_transfers == adapter.erc1155.result
             grouped == SelectSeq(all_transfers, LAMBDA t : t.contractAddress # "")
             keys == DistinctInOrder(
                        [i \in 1..Len(grouped) |->
                            <<Lower(grouped[i].contractAddress), grouped[i].tokenID>>])
         IN Erc1155Loop(addr, all_transfers, keys, 1, nhs)

\* _enhance_holdings_with_acquisition_dates: the token and the NFT holdings after it
_enhance_holdings_with_acquisition_dates(adapter, addr, ths, nhs) ==
    [token_holdings |-> _analyze_erc20_holding_periods(adapter, addr, ths),
     nft_holdings |->
        _analyze_erc1155_holding_periods(adapter, addr,
            _analyze_erc721_holding_periods(adapter, addr, nhs))]

\* ------------------------------------------------ analyze_portfolio
RECURSIVE SumOf(_)
SumOf(s) == IF s = <<>> THEN 0 ELSE s[1] + SumOf(Tail(s))

TokenValues(ths) == [i \in 1..Len(ths) |-> ths[i].value_usd]
NftValues(nhs) == [i \in 1..Len(nhs) |-> nhs[i].estimated_value_usd]

\* total_value_usd = eth_value_usd + total_token_value + total_nft_value
TotalValue(val, ths, nhs) == val + SumOf(TokenValues(ths)) + SumOf(NftValues(nhs))

\* _print_portfolio_breakdown divides by the total value when it prints the
\* share of the significant and of the dust positions (lines 164 and 167)
BreakdownRaises(val, ths, nhs) == TotalValue(val, ths, nhs) = 0

\* variant: the total leaves the NFT holdings out
BuildSnapshotWithoutNfts(addr, bal, val, ths, nhs) ==
    [address |-> addr, eth_balance |-> bal, eth_value_usd |-> val,
     token_holdings |-> ths, nft_holdings |-> nhs,
     total_value_usd |-> val + SumOf(TokenValues(ths)),
     analysis_timestamp |-> Today]

\* lines 86-101: the total and the PortfolioSnapshot
BuildSnapshot(addr, bal, val, ths, nhs) ==
    [address |-> addr, eth_balance |-> bal, eth_value_usd |-> val,
     token_holdings |-> ths, nft_holdings |-> nhs,
     total_value_usd |-> TotalValue(val, ths, nhs),
     analysis_timestamp |-> Today]

\* ---- what the adapters can answer
P_eth == Position(TRUE, "ETH", None, Some(2), Some(400000), Some(200000))
P_eth_cents == Position(TRUE, "eth", None, Some(1), Some(99), Some(99))
P_usdc == Position(TRUE, "USDC",
                   Some(Implementation("0x833589fCD6eDb6E08f4c7C32D4f71b54bdA02913", 6)),
                   Some(5), Some(500), Some(100))
P_dai == Position(TRUE, "DAI", Some(Implementation(DAI, 18)),
                  Some(1), Some(100), Some(100))
P_dust == Position(TRUE, "DUST", Some(Implementation("0xDeaD01", 18)),
                   Some(9), Some(99), Some(11))
P_bad == Position(TRUE, "BAD", Some(Implementation("0xbad", 18)),
                  Some(1), None, Some(1))
P_nofungible == Position(FALSE, "", None, Some(0), Some(0), Some(0))
P_mainnet == Position(TRUE, "UNI", None, Some(3), Some(3000), Some(1000))

C_apes == Collection(Some("Apes"), Some(2), 1000, <<"base", "0xApes01">>)
C_cheap == Collection(Some("Cheap"), Some(1), 99, <<"0xcheap">>)
C_zero == Collection(Some("Zero"), Some(0), 500, <<>>)
C_badcount == Collection(Some("Bad"), None, 500, <<>>)
C_null == Collection(None, Some(1), 500, <<>>)
C_punks == Collection(Some("Punks"), Some(1), 500, <<"0xpunks">>)
C_small == Collection(Some("Small"), Some(1), 100, <<"0xsmall">>)

PositionsResponses ==
    { Response("raises", <<>>), Response("none", <<>>),
      Response("malformed", <<>>), Response("ok", <<>>),
      Response("ok", <<P_eth, P_usdc>>),
      Response("ok", <<P_usdc, P_bad, P_dai>>),
      Response("ok", <<P_dust, P_nofungible, P_eth_cents>>),
      Response("ok", <<P_mainnet, P_eth>>) }

CollectionsResponses ==
    { Response("raises", <<>>), Response("none", <<>>),
      Response("malformed", <<>>), Response("ok", <<>>),
      Response("ok", <<C_apes>>),
      Response("ok", <<C_apes, C_null>>),
      Response("ok", <<C_badcount, C_cheap, C_zero, C_punks>>),
      Response("ok", <<C_small, C_cheap>>) }

ZerionAdapters ==
    {None} \cup { Some([positions |-> p, nft_collections |-> n]) :
                     p \in PositionsResponses, n \in CollectionsResponses }

EtherscanResponse(valid, result) == [valid |-> valid, result |-> result]

Erc20Responses ==
    { EtherscanResponse(FALSE, <<>>), EtherscanResponse(TRUE, <<>>),
      EtherscanResponse(TRUE,
        << Transfer("0x833589fCD6eDb6E08f4c7C32D4f71b54bdA02913", "0xother",
                    "0xwallet", Some(5), Some(100), "", None),
           Transfer(USDC, "0xWallet", "0xother", Some(2), Some(300), "", None),
           Transfer("0xDeaD01", "0xother", "0xWALLET", Some(7), Some(500), "", None) >>),
      EtherscanResponse(TRUE,
        << Transfer(USDC, "0xother", "0xwallet", None, Some(10), "", None),
           Transfer(USDC, "0xother", "0xwallet", Some(4), None, "", None),
           Transfer(DAI, "0xwallet", "0xother", Some(3), Some(20), "", None) >>),
      EtherscanResponse(TRUE,
        << Transfer(USDC, "0xWallet", "0xother", Some(2), Some(300), "", None) >>) }

Erc721Responses ==
    { EtherscanResponse(FALSE, <<>>), EtherscanResponse(TRUE, <<>>),
      EtherscanResponse(TRUE,
        << Transfer("0xApes01", "0xother", "0xwallet", None, Some(200), "1", Some("Apes")),
           Transfer("0xApes01", "0xother", "0xwallet", None, Some(150), "2", None),
           Transfer("0xApes01", "0xWallet", "0xother", None, Some(400), "2", None) >>) }

Erc1155Responses ==
    { EtherscanResponse(FALSE, <<>>),
      EtherscanResponse(TRUE,
        << Transfer("0xApes01", "0xother", "0xwallet", Some(3), Some(50), "1", None) >>) }

BalanceResponses ==
    { EtherscanResponse(FALSE, None), EtherscanResponse(TRUE, Some(3)) }

EtherscanAdapters ==
    { [erc20 |-> a, erc721 |-> b, erc1155 |-> c, ether_balance |-> d] :
         a \in Erc20Responses, b \in Erc721Responses,
         c \in Erc1155Responses, d \in BalanceResponses }

\* what the price service answers: nothing (0.0 and {}), or a price table
PricingInputs ==
    { [eth_price |-> 0, token_prices |-> <<>>],
      [eth_price |-> 200000,
       token_prices |-> << <<USDC, 100>>, <<"0xdead01", 50>> >>] }

\* PortfolioService(etherscan_adapter, zerion_adapter), used bare or entered as
\* an async context manager (which opens the session)
InitPortfolio ==
    /\ zerion_adapter \in ZerionAdapters
    /\ etherscan_adapter \in {Some(a) : a \in EtherscanAdapters}
    /\ pricing_service \in {Some(p) : p \in PricingInputs}
    /\ context \in {"bare", "inside"}
    \* __aenter__ (lines 27-31) opens the session
    /\ session = IF context = "inside" THEN "open" ELSE "none"
    /\ pf_pc = "idle"
    /\ token_holdings = <<>>
    /\ nft_holdings = <<>>
    /\ eth_balance = 0
    /\ eth_value_usd = 0
    /\ snapshot = None
    /\ ClassifierIdle
    /\ AnalyzerIdle
    /\ TasksIdle
    /\ PureIdle

otherVars == <<classifierVars, analyzerVars, taskVars, pureVars>>
adapterVars == <<zerion_adapter, etherscan_adapter, pricing_service>>

\* lines 42-74: the session is created when there is none, then the holdings
\* are fetched from Zerion when an adapter was given, else from the transfers
FetchPortfolioData ==
    /\ pf_pc = "idle"
    /\ LET d == IF zerion_adapter # None
                THEN _get_zerion_portfolio_data(zerion_adapter[1],
                         etherscan_adapter[1], pricing_service[1], "open",
                         WalletAddress)
                ELSE EtherscanBranch(etherscan_adapter[1], pricing_service[1],
                                     "open", WalletAddress)
       IN /\ token_holdings' = d.token_holdings
          /\ nft_holdings' = d.nft_holdings
          /\ eth_balance' = d.eth_balance
          /\ eth_value_usd' = d.eth_value_usd
    /\ session' = "open"
    /\ pf_pc' = "fetched"
    /\ UNCHANGED <<snapshot, context, adapterVars, otherVars>>

\* lines 76-79
EnhanceHoldings ==
    /\ pf_pc = "fetched"
    /\ LET h == _enhance_holdings_with_acquisition_dates(
                    etherscan_adapter[1], WalletAddress,
                    token_holdings, nft_holdings)
       IN /\ token_holdings' = h.token_holdings
          /\ nft_holdings' = h.nft_holdings
    /\ pf_pc' = "enhanced"
    /\ UNCHANGED <<eth_balance, eth_value_usd, session, snapshot,
                   context, adapterVars, otherVars>>

\* lines 81-107: the breakdown is printed, the snapshot is built and returned;
\* on the way out, by return or by exception, the finally clause closes the
\* session (the attribute _context_managed is never set)
PrintAndReturn ==
    /\ pf_pc = "enhanced"
    /\ IF BreakdownRaises(eth_value_usd, token_holdings, nft_holdings)
       THEN /\ pf_pc' = "raised"
            /\ UNCHANGED snapshot
       ELSE /\ pf_pc' = "returned"
            /\ snapshot' = Some(BuildSnapshot(WalletAddress, eth_balance,
                                    eth_value_usd, token_holdings, nft_holdings))
    /\ session' = "none"
    /\ UNCHANGED <<token_holdings, nft_holdings, eth_balance, eth_value_usd,
                   context, adapterVars, otherVars>>

\* __aexit__ (lines 33-36), once the call made inside the async with is over
AExit ==
    /\ context = "inside"
    /\ pf_pc \in {"returned", "raised"}
    /\ context' = "exited"
    /\ session' = "none"
    /\ UNCHANGED <<pf_pc, token_holdings, nft_holdings, eth_balance, eth_value_usd,
                   snapshot, adapterVars, otherVars>>

NextPortfolio ==
    \/ FetchPortfolioData
    \/ EnhanceHoldings
    \/ PrintAndReturn
    \/ AExit

SpecPortfolio == InitPortfolio /\ [][NextPortfolio]_vars

\* ------------------------------------------------ the reducer on its own
\* _calculate_detailed_holding_metrics applied to a transfer list of one asset
\* and to a permutation of the same list.
MaxRecords == 3

R_in16 == Transfer(USDC, "0xDeaD01", "0xWALLET", Some(16), Some(20), "", "")
R_in1 == Transfer(USDC, "0xDeaD01", "0xWallet", Some(1), Some(10), "", "")
R_out16 == Transfer(USDC, "0xWallet", "0xDeaD01", Some(16), Some(30), "", "")
R_self == Transfer(USDC, "0xWallet", "0xWALLET", Some(1), Some(15), "", "")
R_badvalue == Transfer(USDC, "0xDeaD01", "0xWallet", None, Some(5), "", "")
R_badtime == Transfer(USDC, "0xDeaD01", "0xWallet", Some(1), None, "", "")

ReducerRecords == {R_in16, R_in1, R_out16, R_self, R_badvalue, R_badtime}

TokenTypes == {"ERC20", "ERC721", "ERC1155"}

Permute(s, p) == [i \in 1..Len(s) |-> s[p[i]]]

InitReducer ==
    /\ transfers_in \in SeqsUpTo(ReducerRecords, MaxRecords)
    /\ token_type \in TokenTypes
    /\ permuted = None
    /\ metrics = None
    /\ permuted_metrics = None
    /\ token_balance = None
    /\ ClassifierIdle
    /\ AnalyzerIdle
    /\ TasksIdle
    /\ PortfolioIdle
    /\ ActivityIdle
    /\ SnapshotIdle
    /\ ReadIdle

Reduce ==
    /\ metrics = None
    /\ \E p \in Permutations(1..Len(transfers_in)) :
          LET shuffled == Permute(transfers_in, p)
          IN /\ permuted' = Some(shuffled)
             /\ metrics' =
                  Some(_calculate_detailed_holding_metrics(WalletAddress, transfers_in,
                                                           token_type))
             /\ permuted_metrics' =
                  Some(_calculate_detailed_holding_metrics(WalletAddress, shuffled,
                                                           token_type))
    /\ token_balance' = Some(_calculate_token_balance(WalletAddress, USDC, transfers_in))
    /\ UNCHANGED <<transfers_in, token_type, classifierVars, analyzerVars, taskVars,
                   portfolioVars, activityVars, snapshotVars, readVars>>

NextReducer == Reduce

SpecReducer == InitReducer /\ [][NextReducer]_vars

\* ------------------------------------------------ ActivityService
\* Timestamps are counted in ticks, TicksPerDay to a day, so that two records
\* of one calendar day can differ and the window can start inside a day.
TicksPerDay == 2

\* the text of a timeStamp field: decimal digits (int() parses them), absent
\* or empty (falsy), or any other text (truthy, int() raises ValueError)
Digits(n) == [kind |-> "digits", n |-> n]
EmptyText == [kind |-> "empty", n |-> 0]
OtherText == [kind |-> "other", n |-> 0]

\* if tx.get("timeStamp"):
HasTimeStamp(r) == r.timeStamp.kind # "empty"
\* int(tx["timeStamp"]) raises
IntRaises(r) == r.timeStamp.kind = "other"

\* days: int = 365
Days == 365

\* datetime.now(), in ticks, and since_date = datetime.now() - timedelta(days)
Now == Today * TicksPerDay + 1
since_date == Now - Days * TicksPerDay

\* tx_date.date()
DateOf(t) == t \div TicksPerDay

ActivityRecord(timeStamp, hash, contractAddress) ==
    [timeStamp |-> timeStamp, hash |-> hash, contractAddress |-> contractAddress]

\* the records the loops count: a timestamp inside the window
InWindow(r) == HasTimeStamp(r) /\ r.timeStamp.n >= since_date

\* an exception inside the loop reaches the except Exception of the method
LoopRaises(records) ==
    \E i \in 1..Len(records) : HasTimeStamp(records[i]) /\ IntRaises(records[i])

EmptyActivityScore == [active_days |-> 0, total_transactions |-> 0]

calculate_activity_score(response) ==
    IF ~Valid(response) THEN EmptyActivityScore
    ELSE IF LoopRaises(response.result) THEN EmptyActivityScore
    ELSE LET counted == SelectSeq(response.result, InWindow)
         IN [active_days |->
                Cardinality({DateOf(counted[i].timeStamp.n) : i \in 1..Len(counted)}),
             total_transactions |-> Len(counted)]

EmptySwapActivity == [swap_count |-> 0, unique_tokens |-> 0, dex_interactions |-> 0]

analyze_swap_activity(response) ==
    IF ~Valid(response) THEN EmptySwapActivity
    ELSE IF LoopRaises(response.result) THEN EmptySwapActivity
    ELSE LET kept == SelectSeq(response.result,
                               LAMBDA r : InWindow(r) /\ r.hash # "")
             tx_transfers == {kept[i].hash : i \in 1..Len(kept)}
             unique_tokens == {Lower(kept[i].contractAddress) :
                                  i \in {j \in 1..Len(kept) : kept[j].contractAddress # ""}}
         IN [swap_count |->
                Cardinality({h \in tx_transfers :
                    Cardinality({i \in 1..Len(kept) : kept[i].hash = h}) >= 2}),
             unique_tokens |-> Cardinality(unique_tokens),
             dex_interactions |-> Cardinality(tx_transfers)]

MaxActivityRecords == 3

A_morning == ActivityRecord(Digits(Now - 11), "0xh1", USDC)
A_evening == ActivityRecord(Digits(Now - 10), "0xh1", DAI)
A_other == ActivityRecord(Digits(Now - 21), "0xh2",
                          "0x833589fCD6eDb6E08f4c7C32D4f71b54bdA02913")
A_old == ActivityRecord(Digits(since_date - 1), "0xh2", DAI)
A_nohash == ActivityRecord(Digits(since_date), "", DAI)
A_empty == ActivityRecord(EmptyText, "0xh1", DAI)
A_garbled == ActivityRecord(OtherText, "0xh1", USDC)

ActivityRecords == {A_morning, A_evening, A_other, A_old, A_nohash, A_empty, A_garbled}

ActivityResponses ==
    {EtherscanResponse(FALSE, <<>>)} \cup
    {EtherscanResponse(TRUE, r) : r \in SeqsUpTo(ActivityRecords, MaxActivityRecords)}

InitActivity ==
    /\ activity_call \in {"calculate_activity_score", "analyze_swap_activity"}
    /\ activity_response \in ActivityResponses
    /\ activity_result = None
    /\ ClassifierIdle
    /\ AnalyzerIdle
    /\ TasksIdle
    /\ PortfolioIdle
    /\ ReducerIdle
    /\ SnapshotIdle
    /\ ReadIdle

CalculateActivityScore ==
    /\ activity_call = "calculate_activity_score"
    /\ activity_result = None
    /\ activity_result' = Some(calculate_activity_score(activity_response))
    /\ UNCHANGED <<activity_call, activity_response, classifierVars, analyzerVars,
                   taskVars, portfolioVars, reducerVars, snapshotVars,
                   readVars>>

AnalyzeSwapActivity ==
    /\ activity_call = "analyze_swap_activity"
    /\ activity_result = None
    /\ activity_result' = Some(analyze_swap_activity(activity_response))
    /\ UNCHANGED <<activity_call, activity_response, classifierVars, analyzerVars,
                   taskVars, portfolioVars, reducerVars, snapshotVars,
                   readVars>>

NextActivity == CalculateActivityScore \/ AnalyzeSwapActivity

SpecActivity == InitActivity /\ [][NextActivity]_vars

\* ------------------------------------------------ PortfolioSnapshot properties
\* An asset is a pair <<name, value>>; a ratio is a pair <<numerator,
\* denominator>> of cents, 0.0 being <<0, 1>>.
Asset(name, value) == <<name, value>>

\* assets = [("ETH", eth_value_usd)] + tokens + NFTs
AssetsOf(s) ==
    <<Asset("ETH", s.eth_value_usd)>>
    \o [i \in 1..Len(s.token_holdings) |->
           Asset(s.token_holdings[i].symbol, s.token_holdings[i].value_usd)]
    \o [i \in 1..Len(s.nft_holdings) |->
           Asset("NFT-" \o s.nft_holdings[i].collection_name,
                 s.nft_holdings[i].estimated_value_usd)]

\* max() that keeps the last of several maximal items
RECURSIVE MaxByValueLast(_, _, _)
MaxByValueLast(assets, i, best) ==
    IF i > Len(assets) THEN best
    ELSE MaxByValueLast(assets, i + 1,
                        IF assets[i][2] >= best[2] THEN assets[i] ELSE best)

\* max(assets, key=lambda x: x[1]): the first of several maximal items
RECURSIVE MaxByValue(_, _, _)
MaxByValue(assets, i, best) ==
    IF i > Len(assets) THEN best
    ELSE MaxByValue(assets, i + 1,
                    IF assets[i][2] > best[2] THEN assets[i] ELSE best)

top_asset_by_value(s) == MaxByValue(AssetsOf(s), 2, AssetsOf(s)[1])

ZeroRatio == <<0, 1>>

\* the ratio over the value of the native asset and the tokens only
token_concentration_ratio_without_nfts(s) ==
    IF s.total_value_usd <= 0 THEN ZeroRatio
    ELSE <<top_asset_by_value(s)[2],
           s.eth_value_usd + SumOf(TokenValues(s.token_holdings))>>

token_concentration_ratio(s) ==
    IF s.total_value_usd <= 0 THEN ZeroRatio
    ELSE <<top_asset_by_value(s)[2], s.total_value_usd>>

MaxHoldings == 2

\* holdings of small values, in cents; the symbols and the collection names
\* tell the assets apart
T(symbol, value) == TokenHolding(Lower(symbol), symbol, 1, 18, value, value)
N(name, value) == NFTHolding(Lower(name), "collection", name, value, value, 1, None)

SnapshotTokens == {T("USDC", 1), T("USDC", 2), T("DAI", 2), T("DAI", 0)}
SnapshotNfts == {N("Apes", 2), N("Punks", 2), N("Apes", 1)}
SnapshotEthValues == 0..2

InitSnapshot ==
    /\ portfolio \in
          {Some(BuildSnapshot(WalletAddress, val, val, ths, nhs)) :
              val \in SnapshotEthValues,
              ths \in SeqsUpTo(SnapshotTokens, MaxHoldings),
              nhs \in SeqsUpTo(SnapshotNfts, MaxHoldings)}
    /\ top_asset = None
    /\ concentration = None
    /\ ClassifierIdle
    /\ AnalyzerIdle
    /\ TasksIdle
    /\ PortfolioIdle
    /\ ReducerIdle
    /\ ActivityIdle
    /\ ReadIdle

TopAssetByValue ==
    /\ top_asset = None
    /\ top_asset' = Some(top_asset_by_value(portfolio[1]))
    /\ UNCHANGED <<portfolio, concentration, classifierVars, analyzerVars, taskVars,
                   portfolioVars, reducerVars, activityVars, readVars>>

TokenConcentrationRatio ==
    /\ concentration = None
    /\ concentration' = Some(token_concentration_ratio(portfolio[1]))
    /\ UNCHANGED <<portfolio, top_asset, classifierVars, analyzerVars, taskVars,
                   portfolioVars, reducerVars, activityVars, readVars>>

NextSnapshot == TopAssetByValue \/ TokenConcentrationRatio

SpecSnapshot == InitSnapshot /\ [][NextSnapshot]_vars

\* ======================================================================
\* Claims about the classifier (specification SpecClassifier)
\* ======================================================================
ScoreTab == last_persona_scores[1].tab

\* C1: the archetype returned by _determine_persona has a maximal percentage
\* (total_score / max_possible) over the four archetypes, and among the
\* archetypes of that percentage a maximal total_score.
C1_MaxPercentageThenScore ==
    persona # None =>
        LET win == ScoreTab[persona[1]]
        IN \A p \in Archetypes :
              /\ ~(ScoreTab[p].total_score * win.max_possible
                     > win.total_score * ScoreTab[p].max_possible)
              /\ (ScoreTab[p].total_score * win.max_possible
                     = win.total_score * ScoreTab[p].max_possible
                  => ScoreTab[p].total_score <= win.total_score)

\* C1 witness: two archetypes tie at 100% with different total_score (13 and 11)
\* and the one with 13 points has been returned.
C1_Witness ==
    /\ persona = Some(OG)
    /\ ScoreTab[OG].total_score = 13
    /\ ScoreTab[DeFiChad].total_score = 11
    /\ ScoreTab[DeFiChad].max_possible = 11

\* The battery of the specification's table, written from the table:
\* <<archetype, the criterion's comparison, weight>>.
SpecBattery(c) ==
    << <<OG, c.token_concentration > 60, "High">>,
       <<OG, c.longest_holding_days > 365, "High">>,
       <<OG, c.top_value < 5000, "Medium">>,
       <<OG, c.wallet_creation_date # None
             /\ c.wallet_creation_date[1] < DateTime(2020, 0), "High">>,
       <<OG, c.has_eth, "Medium">>,
       <<DeFiChad, c.longest_holding_days > 90, "High">>,
       <<DeFiChad, c.token_concentration > 50, "High">>,
       <<DeFiChad, c.active_days > 120, "High">>,
       <<DeFiChad, c.top_value > 2000 /\ c.top_value < 5000, "Medium">>,
       <<Degen, c.active_days > 180, "High">>,
       <<Degen, c.swap_count > 100, "High">>,
       <<Degen, c.longest_holding_days < 90, "High">>,
       <<Degen, c.token_concentration > 70, "Medium">>,
       <<Degen, c.is_top_asset_token_not_eth, "Medium">>,
       <<VirginCT, c.wallet_creation_date # None
                   /\ c.wallet_creation_date[1] >= DateTime(2024, 0), "High">>,
       <<VirginCT, c.active_days > 30, "Medium">>,
       <<VirginCT, c.total_portfolio_value < 5000, "High">>,
       <<VirginCT, c.total_transactions < 50, "Medium">> >>

SpecWeight(w) == IF w = "High" THEN 3 ELSE IF w = "Medium" THEN 2 ELSE 1

RECURSIVE SpecPoints(_, _, _, _)
SpecPoints(b, i, p, passingOnly) ==
    IF i > Len(b) THEN 0
    ELSE (IF b[i][1] = p /\ (b[i][2] \/ ~passingOnly) THEN SpecWeight(b[i][3]) ELSE 0)
         + SpecPoints(b, i + 1, p, passingOnly)

SpecCount(b, p) == Cardinality({i \in 1..Len(b) : b[i][1] = p})

\* C2: the evaluated battery is the table: 5/4/5/4 criteria, each passing iff
\* its strict comparison holds, with the table's weights (High=3, Medium=2);
\* max_possible is 13/11/13/10 and total_score the weights of the passing ones.
C2_BatteryIsTable ==
    detailed_metrics # None =>
        LET dm == detailed_metrics[1]
            b == SpecBattery(criteria[1])
        IN /\ Len(dm) = Len(b)
           /\ \A i \in 1..Len(b) :
                 /\ dm[i].persona_type = b[i][1]
                 /\ dm[i].passes = b[i][2]
                 /\ dm[i].weight = b[i][3]
           /\ SpecCount(b, OG) = 5 /\ SpecCount(b, DeFiChad) = 4
           /\ SpecCount(b, Degen) = 5 /\ SpecCount(b, VirginCT) = 4
           /\ DOMAIN ScoreTab = Archetypes
           /\ ScoreTab[OG].max_possible = 13 /\ ScoreTab[DeFiChad].max_possible = 11
           /\ ScoreTab[Degen].max_possible = 13 /\ ScoreTab[VirginCT].max_possible = 10
           /\ \A p \in Archetypes :
                 /\ ScoreTab[p].max_possible = SpecPoints(b, 1, p, FALSE)
                 /\ ScoreTab[p].total_score = SpecPoints(b, 1, p, TRUE)
                 /\ ScoreTab[p].total_metrics = SpecCount(b, p)

\* C2 witness: the battery has been evaluated on values that sit exactly on
\* the thresholds 0.6, 365, 5000 and 120.
C2_Witness ==
    /\ detailed_metrics # None
    /\ criteria[1].token_concentration = 60
    /\ criteria[1].longest_holding_days = 365
    /\ criteria[1].top_value = 5000
    /\ criteria[1].active_days = 120
    /\ ScoreTab[DeFiChad].total_score = 6

\* C3: with the creation date unknown, every creation-date criterion is
\* false: "Wallet Age" and "Recent Wallet" of the classifier, and
\* wallet_created_before_2020 / wallet_created_after_2023 of PersonaAnalyzer.
C3_UnknownDateIsFalse ==
    /\ (detailed_metrics # None /\ criteria[1].wallet_creation_date = None)
         => \A i \in 1..Len(detailed_metrics[1]) :
               detailed_metrics[1][i].metric_name \in {"Wallet Age", "Recent Wallet"}
                   => ~detailed_metrics[1][i].passes
    /\ (results # None /\ wallet_data # None /\ wallet_data[1].first_transaction_date = None)
         => \A i \in 1..Len(results[1]) : ~results[1][i].passed

\* The classifier's half of C3 alone (it holds).
C3_ClassifierHalf ==
    (detailed_metrics # None /\ criteria[1].wallet_creation_date = None)
         => \A i \in 1..Len(detailed_metrics[1]) :
               detailed_metrics[1][i].metric_name \in {"Wallet Age", "Recent Wallet"}
                   => ~detailed_metrics[1][i].passes

\* C4: _determine_persona returns one of the four archetypes, never
\* "Unclassified", also when the best percentage is 0.
C4_NeverUnclassified ==
    persona # None => persona[1] \in Archetypes

\* C4 witness: every archetype scored 0 and an archetype was still returned.
C4_Witness ==
    /\ persona # None
    /\ \A p \in Archetypes : ScoreTab[p].total_score = 0
    /\ last_best_score = Some(<<0, 13>>)

\* ======================================================================
\* Claims about classify_persona_with_details (specification SpecClassify)
\* ======================================================================
\* C5: when a step of classify_persona_with_details raises, the call returns
\* ("Error", {}, []) and nothing propagates to the caller.
C5_ExceptionYieldsError ==
    \A a \in Addresses :
        /\ task_pc[a] # "propagated"
        /\ raised_at[a] # None =>
              /\ task_pc[a] = "returned"
              /\ task_result[a] = Some(ErrorResult)

\* C5 witness: one call failed while gathering (portfolio analysis), the other
\* in the evaluate/score/rank steps, and both returned the Error tuple.
C5_Witness ==
    /\ raised_at["0xA"] = Some("portfolio")
    /\ raised_at["0xB"] = Some("evaluate")
    /\ task_result["0xA"] = Some(ErrorResult)
    /\ task_result["0xB"] = Some(ErrorResult)

\* C6: the confidence format_persona_analysis reports with an address's
\* result is the winning archetype's percentage of that address's own
\* classification.
C6_ConfidenceIsOwn ==
    \A a \in Addresses :
        (formatted[a] # None /\ formatted[a][1].kind = "analysis") =>
            LET c == task_result[a][1].criteria[1]
                b == SpecBattery(c)
                win == task_result[a][1].persona
            IN /\ formatted[a][1].confidence # None
               /\ formatted[a][1].confidence[1].tenths * 2 * SpecPoints(b, 1, win, FALSE)
                     <= 2000 * SpecPoints(b, 1, win, TRUE) + SpecPoints(b, 1, win, FALSE)
               /\ (formatted[a][1].confidence[1].tenths + 1) * 2 * SpecPoints(b, 1, win, FALSE)
                     > 2000 * SpecPoints(b, 1, win, TRUE) + SpecPoints(b, 1, win, FALSE)

\* ======================================================================
\* Claims about PortfolioService (specification SpecPortfolio)
\* ======================================================================
\* the four locals of analyze_portfolio, as one record
Fetched == PortfolioData(token_holdings, nft_holdings, eth_balance, eth_value_usd)

\* what the transfer-based path alone produces for the same adapters
TransferBased ==
    EtherscanBranch(etherscan_adapter[1], pricing_service[1], "open", WalletAddress)

\* C7: every snapshot analyze_portfolio returns has total_value_usd equal to
\* eth_value_usd plus the sum of the token values plus the sum of the NFT
\* values, whichever path produced the holdings.
C7_TotalIsSumOfParts ==
    snapshot # None =>
        LET s == snapshot[1]
        IN s.total_value_usd =
              s.eth_value_usd
              + SumOf([i \in 1..Len(s.token_holdings) |-> s.token_holdings[i].value_usd])
              + SumOf([i \in 1..Len(s.nft_holdings) |->
                          s.nft_holdings[i].estimated_value_usd])

\* C7 witness: a snapshot from the authoritative path whose native asset,
\* tokens and NFT collections all have a non-zero value.
C7_Witness ==
    /\ snapshot # None
    /\ zerion_adapter # None
    /\ ZerionRaisedAt(zerion_adapter[1]) = "no"
    /\ snapshot[1].eth_value_usd > 0
    /\ \E i \in 1..Len(snapshot[1].token_holdings) :
           snapshot[1].token_holdings[i].value_usd > 0
    /\ \E i \in 1..Len(snapshot[1].nft_holdings) :
           snapshot[1].nft_holdings[i].estimated_value_usd > 0

\* C8: when an exception reaches the except clause of
\* _get_zerion_portfolio_data (raised by a Zerion call, by a malformed response
\* or while the collections are processed), the data it returns are exactly
\* the transfer-based ones: nothing collected from Zerion remains.
C8_FallbackOnlyAfterRaise ==
    (/\ pf_pc = "fetched"
     /\ zerion_adapter # None
     /\ ZerionRaisedAt(zerion_adapter[1]) # "no")
    => Fetched = TransferBased

\* C8 witness: the failure came while the collections were processed, after
\* tokens, a native amount and an NFT collection had been collected from
\* Zerion, and the transfer-based path has token holdings of its own.
C8_Witness ==
    /\ pf_pc = "fetched"
    /\ zerion_adapter # None
    /\ ZerionRaisedAt(zerion_adapter[1]) = "collection"
    /\ ZerionCollected(zerion_adapter[1]).token_holdings # <<>>
    /\ ZerionCollected(zerion_adapter[1]).nft_holdings # <<>>
    /\ ZerionCollected(zerion_adapter[1]).eth_value_usd > 0
    /\ token_holdings # <<>>

\* the adapter call yielded no response, or one without a usable data list
Unusable(response) ==
    \/ response.kind \in {"none", "malformed"}
    \/ response.kind = "ok" /\ response.data = <<>>

\* C9: when the positions call of the authoritative source yields no response
\* or a response without a usable data list, the holdings and the native
\* balance are those of the transfer-based path.
C9_UnusableResponseFallsBack ==
    (/\ pf_pc = "fetched"
     /\ zerion_adapter # None
     /\ Unusable(zerion_adapter[1].positions))
    => Fetched = TransferBased

\* C10: analyze_portfolio never raises, and what it returns is a snapshot; for
\* an address with nothing at all the snapshot has total_value_usd = 0.
C10_ReturnsSnapshot ==
    /\ pf_pc # "raised"
    /\ pf_pc = "returned" => snapshot # None

\* ======================================================================
\* Claims about the reducer (SpecReducer)
\* ======================================================================
Reduced == metrics # None

\* a record whose timeStamp and value are both parseable
WellFormed(t) == t.timeStamp # None /\ t.value # None

AllWellFormed(ts) == \A i \in 1..Len(ts) : WellFormed(ts[i])

\* the timestamps of the records whose recipient is the address
InboundDates(ts) ==
    {ts[i].timeStamp[1] : i \in {j \in 1..Len(ts) : Lower(ts[j].to) = Lower(WalletAddress)}}

SetMin(S) == CHOOSE x \in S : \A y \in S : x <= y

SameAggregates(m, n) ==
    /\ m.total_acquired = n.total_acquired
    /\ m.total_sold = n.total_sold
    /\ m.acquisition_count = n.acquisition_count
    /\ m.sale_count = n.sale_count
    /\ m.current_balance = n.current_balance

\* C11: for well-formed records of one asset, the reducer returns the same
\* total_acquired, total_sold, acquisition_count, sale_count and
\* current_balance for the list and for every permutation of it, and
\* first_acquisition is the minimum timestamp over the records whose recipient
\* is the address.
C11_OrderIndependent ==
    (Reduced /\ AllWellFormed(transfers_in)) =>
        /\ SameAggregates(metrics[1], permuted_metrics[1])
        /\ metrics[1].first_acquisition =
              IF InboundDates(transfers_in) = {} THEN None
              ELSE Some(SetMin(InboundDates(transfers_in)))
        /\ permuted_metrics[1].first_acquisition = metrics[1].first_acquisition

\* C12: for non-negative values the reducer's total_acquired, total_sold and
\* current_balance are all >= 0, and current_balance equals
\* max(0, total_acquired - total_sold).
C12_BalanceIsClampedDifference ==
    Reduced =>
        /\ metrics[1].total_acquired >= 0
        /\ metrics[1].total_sold >= 0
        /\ metrics[1].current_balance >= 0
        /\ metrics[1].current_balance =
              Max(0, metrics[1].total_acquired - metrics[1].total_sold)

\* ======================================================================
\* Claims about the enriched holdings (SpecPortfolio)
\* ======================================================================
Returned == pf_pc = "returned" /\ snapshot # None

\* C13: every TokenHolding of a returned snapshot satisfies
\* total_acquired >= total_sold >= 0.
C13_AcquiredCoversSold ==
    Returned =>
        \A i \in 1..Len(snapshot[1].token_holdings) :
            LET h == snapshot[1].token_holdings[i]
            IN h.total_acquired >= h.total_sold /\ h.total_sold >= 0

\* a record the reducer counts as an acquisition: it parses and its recipient
\* is the address
IsAcquisition(t, tt) ==
    /\ t.timeStamp # None
    /\ TransferValue(t, tt) # None
    /\ Lower(t.to) = Lower(WalletAddress)

NoAcquisition(ts, tt) == \A i \in 1..Len(ts) : ~IsAcquisition(ts[i], tt)

\* C14: when no record of the input is an acquisition by the address, the
\* reducer returns first_acquisition = none, holding_period_days = 0,
\* acquisition_count = 0, total_acquired = 0 and current_balance = 0.
C14_NoAcquisitionIsEmpty ==
    (Reduced /\ NoAcquisition(transfers_in, token_type)) =>
        /\ metrics[1].first_acquisition = None
        /\ metrics[1].holding_period_days = 0
        /\ metrics[1].acquisition_count = 0
        /\ metrics[1].total_acquired = 0
        /\ metrics[1].current_balance = 0

\* disposals only: the running balance went below zero and was clamped
C14_Witness ==
    /\ Reduced
    /\ NoAcquisition(transfers_in, token_type)
    /\ metrics[1].sale_count > 0
    /\ metrics[1].total_sold > 0
    /\ metrics[1].current_balance = 0

Enhanced == pf_pc \in {"enhanced", "returned", "raised"}

\* the records of the ERC20 transfer list that belong to a holding's contract
TransfersOf(h) ==
    SelectSeq(etherscan_adapter[1].erc20.result,
              LAMBDA t : t.contractAddress # ""
                         /\ Lower(t.contractAddress) = Lower(h.contract_address))

\* what the reducer returns for the well-formed records alone
WellFormedMetrics(h) ==
    _calculate_detailed_holding_metrics(WalletAddress,
        SortByTimeStamp(SelectSeq(TransfersOf(h), WellFormed)), "ERC20")

\* C15: a transfer record with an unparseable value or timestamp is skipped and
\* is not fatal: every token holding is enriched with what the well-formed
\* records of its asset give, whatever malformed records the list contains.
C15_MalformedRecordsAreSkipped ==
    (Enhanced /\ Valid(etherscan_adapter[1].erc20)) =>
        \A i \in 1..Len(token_holdings) :
            LET h == token_holdings[i]
                a == WellFormedMetrics(h)
            IN /\ h.acquisition_date = a.first_acquisition
               /\ h.last_activity_date = a.last_activity
               /\ h.holding_period_days = a.holding_period_days
               /\ h.total_acquired = a.total_acquired
               /\ h.total_sold = a.total_sold
               /\ h.acquisition_transactions = a.acquisition_count
               /\ h.sale_transactions = a.sale_count

\* ======================================================================
\* Claims about ActivityService (SpecActivity)
\* ======================================================================
\* the records of a response whose timestamp text is a number
ParseableRecords(response) ==
    [response EXCEPT !.result = SelectSeq(@, LAMBDA r : r.timeStamp.kind = "digits")]

\* C16: in calculate_activity_score and analyze_swap_activity a record whose
\* timestamp is unparseable is skipped and does not abort processing: the
\* returned metrics equal those computed from the remaining records of the
\* same response.
C16_UnparseableTimestampSkipped ==
    (activity_result # None /\ Valid(activity_response)) =>
        activity_result[1] =
            IF activity_call = "calculate_activity_score"
            THEN calculate_activity_score(ParseableRecords(activity_response))
            ELSE analyze_swap_activity(ParseableRecords(activity_response))

\* the timestamps of the inbound ERC721 transfers of a holding's contract, over
\* all token ids
CollectionInboundDates(h) ==
    LET ts == etherscan_adapter[1].erc721.result
    IN {ts[i].timeStamp[1] :
           i \in {j \in 1..Len(ts) :
                     /\ ts[j].contractAddress # ""
                     /\ Lower(ts[j].contractAddress) = Lower(h.contract_address)
                     /\ Lower(ts[j].to) = Lower(WalletAddress)
                     /\ ts[j].timeStamp # None}}

\* an NFT holding the Zerion path created for a whole collection
IsAggregate(h) == h.token_id = "collection"

\* C17: an NFT holding supplied as one collection-level aggregate gets, after
\* enrichment, as acquisition_date the earliest inbound ERC721 transfer to the
\* address over all token ids of its contract, and holding_period_days counted
\* from that date, whenever such a transfer exists.
C17_AggregateUsesEarliestInbound ==
    (Enhanced /\ Valid(etherscan_adapter[1].erc721)) =>
        \A i \in 1..Len(nft_holdings) :
            LET h == nft_holdings[i]
            IN (IsAggregate(h) /\ CollectionInboundDates(h) # {}) =>
                  /\ h.acquisition_date = Some(SetMin(CollectionInboundDates(h)))
                  /\ h.holding_period_days = Today - SetMin(CollectionInboundDates(h))

\* ======================================================================
\* Claims about the authoritative path (SpecPortfolio)
\* ======================================================================
\* the data came from Zerion and no fallback was taken
Authoritative ==
    /\ pf_pc = "fetched"
    /\ zerion_adapter # None
    /\ ZerionRaisedAt(zerion_adapter[1]) = "no"

PositionsData ==
    IF zerion_adapter[1].positions.kind = "ok"
    THEN zerion_adapter[1].positions.data ELSE <<>>

CollectionsData ==
    IF zerion_adapter[1].nft_collections.kind = "ok"
    THEN zerion_adapter[1].nft_collections.data ELSE <<>>

\* a position whose three numeric fields parse
Readable(p) == p.fungible_info /\ p.quantity # None /\ p.value # None /\ p.price # None

IsNative(p) == p.base_impl = None /\ Upper(p.symbol) = "ETH"

\* the responses with the positions and collections below $1 taken out
WithoutSmall(zerion) ==
    [positions |->
        [zerion.positions EXCEPT !.data =
            SelectSeq(@, LAMBDA p : ~(Readable(p) /\ p.value[1] < 100))],
     nft_collections |->
        [zerion.nft_collections EXCEPT !.data =
            SelectSeq(@, LAMBDA c : ~(c.total_floor_price < 100))]]

\* C18: on the authoritative path no position and no collection valued below
\* $1 contributes to the token holdings, the NFT holdings or the native
\* balance and value, and one valued at $1 or more but below $5 is kept.
C18_BelowOneDollarDiscarded ==
    Authoritative =>
        /\ \A i \in 1..Len(token_holdings) : token_holdings[i].value_usd >= 100
        /\ \A i \in 1..Len(nft_holdings) : nft_holdings[i].estimated_value_usd >= 100
        /\ LET d == ZerionCollected(WithoutSmall(zerion_adapter[1]))
           IN /\ token_holdings = d.token_holdings
              /\ nft_holdings = d.nft_holdings
              /\ eth_balance = d.eth_balance
              /\ eth_value_usd = d.eth_value_usd
        /\ \A i \in 1..Len(PositionsData) :
              LET p == PositionsData[i]
              IN (/\ Readable(p) /\ p.value[1] >= 100 /\ p.value[1] < 500
                  /\ p.base_impl # None /\ p.quantity[1] > 0) =>
                    \E j \in 1..Len(token_holdings) :
                       /\ token_holdings[j].contract_address = Lower(p.base_impl[1].address)
                       /\ token_holdings[j].value_usd = p.value[1]
        /\ \A i \in 1..Len(CollectionsData) :
              LET c == CollectionsData[i]
              IN (/\ c.nfts_count # None /\ c.nfts_count[1] > 0
                  /\ c.total_floor_price >= 100 /\ c.total_floor_price < 500) =>
                    \E j \in 1..Len(nft_holdings) :
                       /\ nft_holdings[j].contract_address = CollectionContract(c.id_parts)
                       /\ nft_holdings[j].estimated_value_usd = c.total_floor_price

\* a $1 token and a $1 collection are kept while a $0.99 collection of the
\* same response is dropped
C18_Witness ==
    /\ Authoritative
    /\ \E i \in 1..Len(PositionsData) : PositionsData[i] = P_dai
    /\ \E j \in 1..Len(token_holdings) : token_holdings[j].value_usd = 100
    /\ \E i \in 1..Len(CollectionsData) : CollectionsData[i] = C_cheap
    /\ \E j \in 1..Len(nft_holdings) : nft_holdings[j].estimated_value_usd = 100

\* ======================================================================
\* Claims about the PortfolioSnapshot properties (SpecSnapshot)
\* ======================================================================
\* C19: token_concentration_ratio lies in [0,1] when total_value_usd > 0 and
\* is exactly 0 when total_value_usd <= 0.
C19_ConcentrationInUnitInterval ==
    concentration # None =>
        IF portfolio[1].total_value_usd > 0
        THEN /\ concentration[1][2] > 0
             /\ 0 <= concentration[1][1]
             /\ concentration[1][1] <= concentration[1][2]
        ELSE concentration[1] = ZeroRatio

\* a ratio strictly between 0 and 1, the top asset being an NFT
C19_Witness ==
    /\ concentration # None
    /\ portfolio[1].total_value_usd > 0
    /\ 0 < concentration[1][1]
    /\ concentration[1][1] < concentration[1][2]
    /\ portfolio[1].nft_holdings # <<>>
    /\ concentration[1][1] = portfolio[1].nft_holdings[1].estimated_value_usd
    /\ concentration[1][1] > portfolio[1].eth_value_usd

\* the least index of an asset of maximal value
FirstMaximal(assets) ==
    CHOOSE k \in 1..Len(assets) :
        /\ \A i \in 1..Len(assets) : assets[i][2] <= assets[k][2]
        /\ \A i \in 1..(k - 1) : assets[i][2] < assets[k][2]

\* C20: top_asset_by_value returns an asset of maximal value among the native
\* asset, the token holdings and the NFT holdings, and among several assets of
\* maximal value the first in the order native, tokens, NFTs.
C20_TopAssetIsFirstMaximal ==
    top_asset # None =>
        LET assets == AssetsOf(portfolio[1])
        IN /\ \A i \in 1..Len(assets) : assets[i][2] <= top_asset[1][2]
           /\ top_asset[1] = assets[FirstMaximal(assets)]

\* a tie between a token and a later token and an NFT, the native asset being
\* worth less: the first token is returned
C20_Witness ==
    /\ top_asset # None
    /\ Len(portfolio[1].token_holdings) = 2
    /\ portfolio[1].nft_holdings # <<>>
    /\ portfolio[1].token_holdings[1].value_usd = 2
    /\ portfolio[1].token_holdings[2].value_usd = 2
    /\ portfolio[1].token_holdings[2].symbol # portfolio[1].token_holdings[1].symbol
    /\ portfolio[1].nft_holdings[1].estimated_value_usd = 2
    /\ portfolio[1].eth_value_usd < 2
    /\ top_asset[1] = Asset(portfolio[1].token_holdings[1].symbol, 2)

\* ================================================================
\* The derived figures of one PortfolioSnapshot
\* (src/models/portfolio_models.py) and the figures that
\* _print_portfolio_breakdown computes from the same holdings
\* (src/services/portfolio_service.py). Values are in cents.
\* ================================================================

\* the 5.0 of the dust and of the significance tests
FiveDollars == 500

CountWhere(values, Test(_)) == Len(SelectSeq(values, Test))

SumWhere(values, Test(_)) == SumOf(SelectSeq(values, Test))

\* 0 < value < 5.0
IsDust(v) == 0 < v /\ v < FiveDollars

\* the three values lists of a snapshot: native, tokens, NFTs
ValuesOf(s) == <<s.eth_value_usd>> \o TokenValues(s.token_holdings) \o NftValues(s.nft_holdings)

dust_positions_count(s) == CountWhere(ValuesOf(s), IsDust)

dust_value_usd(s) == SumWhere(ValuesOf(s), IsDust)

\* value_usd >= min_value_usd, with the default min_value_usd = 5.0
IsSignificant(v) == v >= FiveDollars

get_significant_token_holdings(s) ==
    SelectSeq(s.token_holdings, LAMBDA h : IsSignificant(h.value_usd))

get_significant_nft_holdings(s) ==
    SelectSeq(s.nft_holdings, LAMBDA h : IsSignificant(h.estimated_value_usd))

get_all_significant_positions(s) ==
    [eth |-> IsSignificant(s.eth_value_usd),
     eth_value |-> IF IsSignificant(s.eth_value_usd) THEN s.eth_value_usd ELSE 0,
     tokens |-> get_significant_token_holdings(s),
     nfts |-> get_significant_nft_holdings(s),
     total_significant_value |-> SumWhere(ValuesOf(s), IsSignificant),
     significant_position_count |-> CountWhere(ValuesOf(s), IsSignificant)]

\* the tests of _print_portfolio_breakdown: value > 5.0 and 0 < value <= 5.0
BreakdownSignificant(v) == v > FiveDollars
BreakdownDust(v) == 0 < v /\ v <= FiveDollars

\* the figures _print_portfolio_breakdown has computed when it prints the
\* position analysis; the print divides by the total value and raises when
\* that is zero
BreakdownFigures(ths, nhs, val) ==
    [total_significant_value |->
        SumWhere(<<val>> \o TokenValues(ths) \o NftValues(nhs), BreakdownSignificant),
     total_dust_value |->
        SumWhere(<<val>> \o TokenValues(ths) \o NftValues(nhs), BreakdownDust),
     total_significant_positions |->
        CountWhere(<<val>> \o TokenValues(ths) \o NftValues(nhs), BreakdownSignificant),
     total_dust_positions |->
        CountWhere(<<val>> \o TokenValues(ths) \o NftValues(nhs), BreakdownDust),
     raised |-> BreakdownRaises(val, ths, nhs)]

\* the texts after "NFT-" among the names of the model
NameRests == {"Apes", "Punks", "ETH", ""}

\* top_asset.startswith("NFT-")
StartsWithNft(name) == \E rest \in NameRests : name = "NFT-" \o rest

is_top_asset_nft(s) == StartsWithNft(top_asset_by_value(s)[1])

is_top_asset_token_not_eth(s) ==
    top_asset_by_value(s)[1] # "ETH" /\ ~StartsWithNft(top_asset_by_value(s)[1])

\* holdings valued around five dollars, in cents; a token may carry any
\* symbol its contract declares and a collection any name
PositionTokens == {T("USDC", 500), T("DAI", 499), T("ETH", 501), T("NFT-Apes", 502)}
PositionNfts == {N("Apes", 500), N("Punks", 501), N("ETH", 0)}
PositionEthValues == {0, 499, 500, 501}

PropertyNames ==
    {"dust_positions_count", "dust_value_usd", "get_all_significant_positions",
     "_print_portfolio_breakdown", "is_top_asset_nft", "is_top_asset_token_not_eth"}

InitPositions ==
    /\ portfolio \in
          {Some(BuildSnapshot(WalletAddress, val, val, ths, nhs)) :
              val \in PositionEthValues,
              ths \in SeqsUpTo(PositionTokens, MaxHoldings),
              nhs \in SeqsUpTo(PositionNfts, MaxHoldings)}
    /\ top_asset = None
    /\ concentration = None
    /\ ReadIdle
    /\ ClassifierIdle
    /\ AnalyzerIdle
    /\ TasksIdle
    /\ PortfolioIdle
    /\ ReducerIdle
    /\ ActivityIdle

\* one read of a property or one call of a method on the snapshot
Read(name, value) ==
    /\ property_read = ""
    /\ property_read' = name
    /\ property_value' = Some(value)
    /\ UNCHANGED <<snapshotVars, classifierVars, analyzerVars, taskVars, portfolioVars,
                   reducerVars, activityVars>>

DustPositionsCount == Read("dust_positions_count", dust_positions_count(portfolio[1]))

DustValueUsd == Read("dust_value_usd", dust_value_usd(portfolio[1]))

GetAllSignificantPositions ==
    Read("get_all_significant_positions", get_all_significant_positions(portfolio[1]))

PrintPortfolioBreakdown ==
    Read("_print_portfolio_breakdown",
         BreakdownFigures(portfolio[1].token_holdings, portfolio[1].nft_holdings,
                          portfolio[1].eth_value_usd))

IsTopAssetNft == Read("is_top_asset_nft", is_top_asset_nft(portfolio[1]))

IsTopAssetTokenNotEth ==
    Read("is_top_asset_token_not_eth", is_top_asset_token_not_eth(portfolio[1]))

NextPositions ==
    \/ DustPositionsCount
    \/ DustValueUsd
    \/ GetAllSignificantPositions
    \/ PrintPortfolioBreakdown
    \/ IsTopAssetNft
    \/ IsTopAssetTokenNotEth

SpecPositions == InitPositions /\ [][NextPositions]_vars

\* ================================================================
\* Claims about the dust and the significant positions
\* ================================================================

IsPositive(v) == v > 0

\* C21: a position valued exactly five dollars is significant and is not dust
\* everywhere: dust_positions_count and dust_value_usd leave it out,
\* get_all_significant_positions includes it, the dust and significant figures
\* of the printed breakdown agree with them, and every position of value above
\* zero is in exactly one of the two classes.
C21_FiveDollarsIsSignificantEverywhere ==
    /\ property_read = "dust_positions_count" =>
          property_value[1] =
             CountWhere(ValuesOf(portfolio[1]), IsPositive)
             - get_all_significant_positions(portfolio[1]).significant_position_count
    /\ property_read = "dust_value_usd" =>
          property_value[1] =
             SumOf(ValuesOf(portfolio[1]))
             - get_all_significant_positions(portfolio[1]).total_significant_value
    /\ property_read = "_print_portfolio_breakdown" =>
          /\ property_value[1].total_dust_positions = dust_positions_count(portfolio[1])
          /\ property_value[1].total_dust_value = dust_value_usd(portfolio[1])
          /\ property_value[1].total_significant_positions =
                get_all_significant_positions(portfolio[1]).significant_position_count
          /\ property_value[1].total_significant_value =
                get_all_significant_positions(portfolio[1]).total_significant_value
          /\ property_value[1].total_dust_positions
                + property_value[1].total_significant_positions =
                CountWhere(ValuesOf(portfolio[1]), IsPositive)

\* the place in assets of the item top_asset_by_value returns: the first of
\* the items of maximal value (1 is the native asset, then the tokens, then
\* the NFTs)
TopAssetIndex(s) ==
    CHOOSE i \in 1..Len(AssetsOf(s)) :
        /\ \A j \in 1..Len(AssetsOf(s)) : AssetsOf(s)[j][2] <= AssetsOf(s)[i][2]
        /\ \A j \in 1..(i - 1) : AssetsOf(s)[j][2] < AssetsOf(s)[i][2]

TopIsToken(s) == TopAssetIndex(s) \in 2..(1 + Len(s.token_holdings))

TopIsNft(s) == TopAssetIndex(s) > 1 + Len(s.token_holdings)

\* C27: is_top_asset_token_not_eth is true exactly when the top asset is an
\* entry of token_holdings and is_top_asset_nft is true exactly when it is an
\* entry of nft_holdings (so both are false exactly when it is the native
\* asset), whatever the symbols and the collection names are.
C27_TopAssetKindFollowsTheHolding ==
    /\ property_read = "is_top_asset_token_not_eth" =>
          property_value[1] = TopIsToken(portfolio[1])
    /\ property_read = "is_top_asset_nft" =>
          property_value[1] = TopIsNft(portfolio[1])

\* ================================================================
\* Claims about the activity metrics
\* ================================================================

\* a record of the lookback window: its timestamp is a number not before
\* since_date
WithinWindow(r) == r.timeStamp.kind = "digits" /\ r.timeStamp.n >= since_date

WindowRecords == SelectSeq(activity_response.result, WithinWindow)

WindowHashes == {WindowRecords[i].hash : i \in 1..Len(WindowRecords)} \ {""}

LegsOf(h) == Cardinality({i \in 1..Len(WindowRecords) : WindowRecords[i].hash = h})

SwapActivityReturned ==
    /\ activity_call = "analyze_swap_activity"
    /\ activity_result # None
    /\ Valid(activity_response)

\* C22: analyze_swap_activity returns swap_count = the number of distinct
\* hashes with two or more token-transfer records in the window and
\* dex_interactions = the number of distinct hashes in the window, so
\* swap_count <= dex_interactions; records outside the window count for neither.
C22_SwapsAreHashesWithTwoLegs ==
    SwapActivityReturned =>
        /\ activity_result[1].swap_count =
              Cardinality({h \in WindowHashes : LegsOf(h) >= 2})
        /\ activity_result[1].dex_interactions = Cardinality(WindowHashes)
        /\ activity_result[1].swap_count <= activity_result[1].dex_interactions

ActivityScoreReturned ==
    /\ activity_call = "calculate_activity_score"
    /\ activity_result # None

\* C23: calculate_activity_score returns active_days = the number of distinct
\* calendar dates with a transaction in the window and total_transactions =
\* the number of transactions in the window, so active_days <=
\* total_transactions and active_days = 0 exactly when total_transactions = 0;
\* both are 0 when the response is missing or invalid.
C23_ActiveDaysAreDistinctDates ==
    ActivityScoreReturned =>
        IF Valid(activity_response)
        THEN /\ activity_result[1].active_days =
                   Cardinality({DateOf(WindowRecords[i].timeStamp.n) :
                                   i \in 1..Len(WindowRecords)})
             /\ activity_result[1].total_transactions = Len(WindowRecords)
             /\ activity_result[1].active_days <= activity_result[1].total_transactions
             /\ activity_result[1].active_days = 0
                   <=> activity_result[1].total_transactions = 0
        ELSE activity_result[1] = EmptyActivityScore

\* ================================================================
\* Claims about the routing of the Zerion positions
\* ================================================================

\* the fungible positions of the response valued at $1 or more
ValuedPositions ==
    {i \in 1..Len(PositionsData) :
        Readable(PositionsData[i]) /\ PositionsData[i].value[1] >= MinValueUsd}

NativePositions == {i \in ValuedPositions : IsNative(PositionsData[i])}

\* C24: on the authoritative path every fungible position valued at $1 or
\* more is routed: it adds to the native balance and value or it yields
\* exactly one TokenHolding; none is dropped.
C24_EveryValuedPositionIsRouted ==
    Authoritative =>
        /\ Len(token_holdings) = Cardinality(ValuedPositions \ NativePositions)
        /\ \A i \in ValuedPositions \ NativePositions :
              \E j \in 1..Len(token_holdings) :
                 /\ token_holdings[j].symbol = PositionsData[i].symbol
                 /\ token_holdings[j].value_usd = PositionsData[i].value[1]
        /\ (NativePositions # {}) => eth_value_usd > 0

\* ================================================================
\* Claims about disposals and about the two balance computations
\* ================================================================

\* a record the loop of the reducer gets through: its timestamp parses and
\* so does the value its token type reads
Processed(t) == t.timeStamp # None /\ TransferValue(t, token_type) # None

SentByAddress == {i \in 1..Len(transfers_in) :
                     Processed(transfers_in[i])
                     /\ Lower(transfers_in[i].from) = Lower(WalletAddress)}

ReceivedByAddress == {i \in 1..Len(transfers_in) :
                         Processed(transfers_in[i])
                         /\ Lower(transfers_in[i].to) = Lower(WalletAddress)}

\* C25: the reducer counts every record whose sender is the address as a
\* disposal, a self-transfer included, which it counts both as an acquisition
\* and as a disposal.
C25_EverySentRecordIsADisposal ==
    Reduced =>
        /\ metrics[1].sale_count = Cardinality(SentByAddress)
        /\ metrics[1].acquisition_count = Cardinality(ReceivedByAddress)

\* C26: on the transfer-based path the balance from which a TokenHolding is
\* built (_calculate_token_balance) equals the current_balance the reducer
\* returns for the same records of the contract, malformed records included.
C26_HoldingBalanceIsReducerBalance ==
    (Reduced /\ token_type = "ERC20") =>
        token_balance[1] = metrics[1].current_balance

\* ================================================================
\* Claims about the session and about the enrichment
\* ================================================================

CallIsOver == pf_pc \in {"returned", "raised"}

\* C28: analyze_portfolio closes only a session it created itself: a session
\* opened by entering the service as an async context manager is still open
\* and referenced after every analyze_portfolio call made inside the context,
\* and is closed only at the exit of the context.
C28_ContextSessionOutlivesTheCall ==
    (context = "inside" /\ CallIsOver) => session = "open"

\* the step of analyze_portfolio in which the enrichment runs
EnrichmentStep == pf_pc = "fetched" /\ pf_pc' = "enhanced"

SameTokenFigures(h, g) ==
    /\ g.contract_address = h.contract_address
    /\ g.symbol = h.symbol
    /\ g.decimals = h.decimals
    /\ g.balance = h.balance
    /\ g.price_usd = h.price_usd
    /\ g.value_usd = h.value_usd

SameNftFigures(h, g) ==
    /\ g.contract_address = h.contract_address
    /\ g.token_id = h.token_id
    /\ g.collection_name = h.collection_name
    /\ g.estimated_value_usd = h.estimated_value_usd
    /\ g.floor_price_usd = h.floor_price_usd
    /\ g.token_count = h.token_count

\* the records of a response that name the contract of a holding
MatchingTransfers(response, h) ==
    IF Valid(response)
    THEN SelectSeq(response.result,
                   LAMBDA t : t.contractAddress # ""
                              /\ Lower(t.contractAddress) = Lower(h.contract_address))
    ELSE <<>>

EnrichmentFrame ==
    /\ Len(token_holdings') = Len(token_holdings)
    /\ Len(nft_holdings') = Len(nft_holdings)
    /\ \A i \in 1..Len(token_holdings) :
          /\ SameTokenFigures(token_holdings[i], token_holdings'[i])
          /\ MatchingTransfers(etherscan_adapter[1].erc20, token_holdings[i]) = <<>>
                => token_holdings'[i] = token_holdings[i]
    /\ \A i \in 1..Len(nft_holdings) :
          /\ SameNftFigures(nft_holdings[i], nft_holdings'[i])
          /\ (/\ MatchingTransfers(etherscan_adapter[1].erc721, nft_holdings[i]) = <<>>
              /\ MatchingTransfers(etherscan_adapter[1].erc1155, nft_holdings[i]) = <<>>)
                => nft_holdings'[i] = nft_holdings[i]
    /\ eth_balance' = eth_balance
    /\ eth_value_usd' = eth_value_usd

BothDetermined == persona # None /\ property_read = "_determine_persona_legacy"

\* C30: for every criteria record for which _determine_persona_legacy returns
\* an archetype other than "Unclassified", _determine_persona returns the same
\* archetype, with a confidence of 1 (every criterion of the archetype passes).
C30_LegacyArchetypeIsTheWeightedOne ==
    (BothDetermined /\ property_value[1] # "Unclassified") =>
        /\ persona[1] = property_value[1]
        /\ last_best_score[1][1] = last_best_score[1][2]

\* two archetypes have all their criteria passing, and each archetype is
\* named by the legacy rules for some criteria
C30_Witness ==
    /\ BothDetermined
    /\ property_value[1] = OG
    /\ \A i \in 1..Len(detailed_metrics[1]) :
          detailed_metrics[1][i].persona_type = DeFiChad => detailed_metrics[1][i].passes

====
